---- MODULE Spec2Model ----
(***************************************************************************)
(* A model of the mutation engine (classes/ga/mutation.py), of the cage    *)
(* individuals and structural units it works on (classes/molecular.py)     *)
(* and of Molecule (stk/molecular/molecules/molecule.py): its identity     *)
(* cache, its position store and its structure files.                      *)
(*                                                                         *)
(* The specifications of the module:                                       *)
(*   Spec             one Mutation instance running a mutation round       *)
(*   SpecRounds       rounds run one after another                         *)
(*   SpecLookup       a round whose operator name has no method            *)
(*   SpecSimilar      the mutation operators invoked directly on parents   *)
(*   SpecCache        construction, update_cache() and release of          *)
(*                    Molecule subclass instances                          *)
(*   SpecShared       position changes after update_cache()                *)
(*   SpecGeometry     the operations on the position store                 *)
(*   SpecConformerIds the operations called with any conformer id          *)
(*   SpecFiles        write() and update_from_file()                       *)
(*   SpecUnits        structural units built from database files           *)
(*   SpecWeak         the weak-valued cache of Cage and the collector      *)
(***************************************************************************)
EXTENDS Integers, Sequences, FiniteSets, TLC

VARIABLES
    \* ---- classes/ga/mutation.py: the Mutation instance
    funcs,              \* self.funcs: sequence of FunctionData [name, params]
    weights,            \* self.weights: "None" or a sequence of percentages
    self_num_mutations, \* self.num_mutations: the quota of a round
    n_calls,            \* self.n_calls
    \* ---- the cage objects alive in the process and the population
    cages,              \* heap of Cage objects, indexed by object id
    population,         \* the population's members (object ids)
    \* ---- one round, Mutation.__call__
    pc,                 \* "idle", "loop", "post", "done", "raised", "hung"
    parent_pool,        \* population.select('mutation'), as a sequence
    pos,                \* number of parents taken from parent_pool
    mutant_pop,         \* mutant_pop.members (object ids)
    num_mutations,      \* the local success counter
    counter,            \* collections.Counter: object id -> uses
    \* ---- observation of the round (not program state)
    attempts,           \* operator invocations of this round
    failures,           \* invocations of this round that raised
    collected,          \* mutant_pop.members before the post-filter
    last,               \* the last operator invocation
    history,            \* direct operator invocations (SpecSimilar)
    \* ---- stk/molecular/molecules/molecule.py: the identity cache
    objs,               \* heap of Molecule subclass instances
    lists,              \* heap of Python list objects (the _conformers lists)
    _cache,             \* cls._cache per subclass: key -> object id (0: absent)
    owners,             \* ids of instances some owner other than the cache holds
    served,             \* the instance each (class, key) was last constructed as
    ret,                \* what the last cache operation did
    ops,                \* cache operations performed so far
    \* ---- stk/molecular/molecules/molecule.py: one Molecule and its geometry
    atoms,              \* self.atoms: the element of each atom
    bonds,              \* self.bonds: pairs of atom ids
    _conformers,        \* self._conformers: a list of references to arrays
    arrays,             \* the numpy buffers alive, indexed by id
    gret,               \* what the last geometry operation did
    gops,               \* geometry operations performed so far
    \* ---- the files of the directory the program reads and writes
    disk,               \* file name -> content
    units,              \* the StructUnit constructions made, in order
    \* ---- classes/molecular.py: the weak-valued cache of Cage
    wcache,             \* Cached.__cache: args -> id of the instance
    made,               \* the Cage instances built, by id
    wcall               \* the construction call in progress, or the last

mvars == <<funcs, weights, self_num_mutations, n_calls, cages, population,
           pc, parent_pool, pos, mutant_pop, num_mutations, counter,
           attempts, failures, collected, last, history>>
cvars == <<objs, lists, _cache, owners, served, ret, ops>>
gvars == <<atoms, bonds, _conformers, arrays, gret, gops>>
fvars == <<disk, units>>
wvars == <<wcache, made, wcall>>
vars == <<mvars, cvars, gvars, fvars, wvars>>

(***************************************************************************)
(* Bounds of the model.                                                    *)
(***************************************************************************)
MaxPop == 2          \* members of the population
MaxPool == 2         \* parents a selection yields
MaxQuota == 2        \* largest configured num_mutations
MaxInvocations == 4  \* direct operator invocations in SpecSimilar
MaxCalls == 2        \* invocations after which no further round is started
MaxObjs == 3         \* Molecule instances built in SpecCache
MaxCacheOps == 4     \* cache operations in SpecCache
MaxGeomOps == 2      \* geometry operations in SpecGeometry
MaxConformers == 2   \* conformers of the molecule SpecGeometry starts with
MaxFileOps == 3      \* writes, updates and moves in SpecFiles
MaxUnits == 2        \* structural units built in SpecUnits
MaxCages == 3        \* Cage instances built in SpecWeak

Min(a, b) == IF a <= b THEN a ELSE b
Abs(x) == IF x < 0 THEN -x ELSE x
Range(s) == {s[i] : i \in DOMAIN s}

(***************************************************************************)
(* The file system the operators read.  A file name is a stem and an       *)
(* extension; a database directory is the set of names os.listdir gives.   *)
(***************************************************************************)
DbSize == 3          \* .mol files in the populated database directory

MolFile(s) == [stem |-> s, ext |-> "mol"]
OtherFile == [stem |-> 0, ext |-> "txt"]

Paths == {"db", "mols", "junk", "empty"}

listdir(path) ==
    CASE path = "db"    -> {MolFile(s) : s \in 1..DbSize} \cup {OtherFile}
      [] path = "mols"  -> {MolFile(s) : s \in 1..DbSize}
      [] path = "junk"  -> {OtherFile}
      [] OTHER          -> {}

endswith_mol(f) == f.ext = "mol"

(***************************************************************************)
(* Cage objects.  bb and lk are the structural units (named by the stem of *)
(* the file they were built from), topology the topology class, fitness 0  *)
(* is None, file is the n_calls value the output path was formatted with   *)
(* (0: a path not made by this Mutation instance).  _similar_bb_mols and   *)
(* _similar_lk_mols are the generators attached by similar_bb/similar_lk:  *)
(* has = FALSE is "no such attribute", rest is what the generator has yet  *)
(* to yield.                                                               *)
(***************************************************************************)
NoAttr == [has |-> FALSE, rest |-> <<>>]
Generator(seq) == [has |-> TRUE, rest |-> seq]

NewCage(b, l, t, n) ==
    [bb |-> b, lk |-> l, topology |-> t, fitness |-> 0, file |-> n,
     _similar_bb_mols |-> NoAttr, _similar_lk_mols |-> NoAttr]

NoCage == NewCage(0, 0, 0, 0)

\* Cage.same_cage: building block, linker and topology are all the same.
same_cage_by_fitness(self, other) == self.fitness = other.fitness

same_cage(self, other) ==
    /\ self.bb = other.bb
    /\ self.lk = other.lk
    /\ self.topology = other.topology

\* Cage.__eq__ compares fitness values only.
Cage__eq__(self, other) == self.fitness = other.fitness

(***************************************************************************)
(* StructUnit.similar_molecules(database): the .mol files of the database, *)
(* most similar first.  The similarity oracle is external; here a file is  *)
(* the more similar the closer its stem is to the unit's, the lower stem   *)
(* first among equally similar ones.                                       *)
(***************************************************************************)
Similarity(unit, f) == 0 - Abs(f.stem - unit)

MostSimilar(unit, files) ==
    CHOOSE f \in files :
        \A g \in files :
            \/ Similarity(unit, f) > Similarity(unit, g)
            \/ Similarity(unit, f) = Similarity(unit, g) /\ f.stem <= g.stem

RECURSIVE Ranked(_, _)
Ranked(unit, files) ==
    IF files = {} THEN <<>>
    ELSE LET f == MostSimilar(unit, files)
         IN <<f>> \o Ranked(unit, files \ {f})

similar_molecules(unit, database) ==
    Ranked(unit, {f \in listdir(database) : endswith_mol(f)})

(***************************************************************************)
(* The mutation operators.  Each gives the set of outcomes one invocation  *)
(* can have: the operator returns a new cage, raises, or never returns.    *)
(* parent is the parent object as the invocation leaves it.  StructUnit    *)
(* and Cage construction are external collaborators that may raise.        *)
(***************************************************************************)
Return(mutant, parent, drawn) ==
    [kind |-> "return", mutant |-> mutant, parent |-> parent, drawn |-> drawn]
Raise(parent, drawn) ==
    [kind |-> "raise", mutant |-> NoCage, parent |-> parent, drawn |-> drawn]
Hang(parent) ==
    [kind |-> "hang", mutant |-> NoCage, parent |-> parent, drawn |-> 0]

\* random_bb: the building block is replaced by a random .mol file of the
\* database; `while True` picks again until the name ends in .mol.
random_bb(cage, params, n) ==
    LET names == listdir(params.database)
        mols == {f \in names : endswith_mol(f)}
    IN IF names = {} THEN {Raise(cage, 0)}
       ELSE IF mols = {} THEN {Hang(cage)}
       ELSE {Return(NewCage(f.stem, cage.lk, cage.topology, n), cage, f.stem) :
                f \in mols}
            \cup {Raise(cage, f.stem) : f \in mols}

\* random_lk: the linker is replaced by a random .mol file of the database.
random_lk_in_place(cage, params, n) ==
    LET names == listdir(params.database)
        mols == {f \in names : endswith_mol(f)}
    IN IF names = {} THEN {Raise(cage, 0)}
       ELSE IF mols = {} THEN {Hang(cage)}
       ELSE {Return(NewCage(cage.bb, f.stem, cage.topology, n),
                    [cage EXCEPT !.lk = f.stem], f.stem) : f \in mols}
            \cup {Raise(cage, f.stem) : f \in mols}

random_lk(cage, params, n) ==
    LET names == listdir(params.database)
        mols == {f \in names : endswith_mol(f)}
    IN IF names = {} THEN {Raise(cage, 0)}
       ELSE IF mols = {} THEN {Hang(cage)}
       ELSE {Return(NewCage(cage.bb, f.stem, cage.topology, n), cage, f.stem) :
                f \in mols}
            \cup {Raise(cage, f.stem) : f \in mols}

\* list.remove(x): the first occurrence of x is removed.
IndexOf(seq, x) == CHOOSE i \in DOMAIN seq : seq[i] = x /\ \A j \in 1..(i-1) : seq[j] # x
list_remove(seq, x) ==
    LET i == IndexOf(seq, x)
    IN SubSeq(seq, 1, i-1) \o SubSeq(seq, i+1, Len(seq))

\* random_cage_topology: a random topology of the list, the parent's removed.
random_cage_topology(cage, params, n) ==
    IF cage.topology \notin Range(params.topologies) THEN {Raise(cage, 0)}
    ELSE LET tops == list_remove(params.topologies, cage.topology)
         IN IF tops = <<>> THEN {Raise(cage, 0)}
            ELSE {Return(NewCage(cage.bb, cage.lk, t, n), cage, t) :
                     t \in Range(tops)}
                 \cup {Raise(cage, t) : t \in Range(tops)}

\* similar_bb: the generator is created on the first invocation only and
\* every invocation takes its next item.
similar_bb_restarting(cage, params, n) ==
    LET gen == Generator(similar_molecules(cage.bb, params.database))
        c1 == [cage EXCEPT !._similar_bb_mols = gen]
    IN IF gen.rest = <<>> THEN {Raise(c1, 0)}
       ELSE LET f == Head(gen.rest)
                c2 == [c1 EXCEPT !._similar_bb_mols.rest = Tail(gen.rest)]
            IN {Return(NewCage(f.stem, cage.lk, cage.topology, n), c2, f.stem),
                Raise(c2, f.stem)}

similar_bb(cage, params, n) ==
    LET gen == IF ~cage._similar_bb_mols.has
               THEN Generator(similar_molecules(cage.bb, params.database))
               ELSE cage._similar_bb_mols
        c1 == [cage EXCEPT !._similar_bb_mols = gen]
    IN IF gen.rest = <<>> THEN {Raise(c1, 0)}
       ELSE LET f == Head(gen.rest)
                c2 == [c1 EXCEPT !._similar_bb_mols.rest = Tail(gen.rest)]
            IN {Return(NewCage(f.stem, cage.lk, cage.topology, n), c2, f.stem),
                Raise(c2, f.stem)}

\* similar_lk: as similar_bb, on the linker and its own generator.
similar_lk_restarting(cage, params, n) ==
    LET gen == Generator(similar_molecules(cage.lk, params.database))
        c1 == [cage EXCEPT !._similar_lk_mols = gen]
    IN IF gen.rest = <<>> THEN {Raise(c1, 0)}
       ELSE LET f == Head(gen.rest)
                c2 == [c1 EXCEPT !._similar_lk_mols.rest = Tail(gen.rest)]
            IN {Return(NewCage(cage.bb, f.stem, cage.topology, n), c2, f.stem),
                Raise(c2, f.stem)}

similar_lk(cage, params, n) ==
    LET gen == IF ~cage._similar_lk_mols.has
               THEN Generator(similar_molecules(cage.lk, params.database))
               ELSE cage._similar_lk_mols
        c1 == [cage EXCEPT !._similar_lk_mols = gen]
    IN IF gen.rest = <<>> THEN {Raise(c1, 0)}
       ELSE LET f == Head(gen.rest)
                c2 == [c1 EXCEPT !._similar_lk_mols.rest = Tail(gen.rest)]
            IN {Return(NewCage(cage.bb, f.stem, cage.topology, n), c2, f.stem),
                Raise(c2, f.stem)}

\* The methods of Mutation that getattr(self, name) finds.
MethodsOrDefault ==
    {"random_bb", "random_lk", "random_cage_topology", "similar_bb",
     "similar_lk", "no_such_method"}

Methods == {"random_bb", "random_lk", "random_cage_topology",
            "similar_bb", "similar_lk"}

\* func(parent, **func_data.params)
Invoke(name, cage, params, n) ==
    CASE name = "random_bb"            -> random_bb(cage, params, n)
      [] name = "random_lk"            -> random_lk(cage, params, n)
      [] name = "random_cage_topology" -> random_cage_topology(cage, params, n)
      [] name = "similar_bb"           -> similar_bb(cage, params, n)
      [] OTHER                         -> similar_lk(cage, params, n)

(***************************************************************************)
(* Configurations of a Mutation instance: funcs is the list of             *)
(* FunctionData (name, params), weights the optional probabilities, here   *)
(* in percent.                                                             *)
(***************************************************************************)
NumTopologies == 2   \* topology classes

AllTopologies == [i \in 1..NumTopologies |-> i]

FunctionData(name, database, topologies) ==
    [name |-> name,
     params |-> [database |-> database, topologies |-> topologies]]

NoWeights == [given |-> FALSE, p |-> <<>>]
Weights(p) == [given |-> TRUE, p |-> p]

Configs ==
    { [funcs |-> << FunctionData("random_bb", "db", <<>>),
                    FunctionData("random_cage_topology", "", AllTopologies) >>,
       weights |-> NoWeights],
      [funcs |-> << FunctionData("random_lk", "mols", <<>>),
                    FunctionData("similar_bb", "db", <<>>) >>,
       weights |-> NoWeights],
      [funcs |-> << FunctionData("random_bb", "empty", <<>>),
                    FunctionData("random_lk", "junk", <<>>),
                    FunctionData("similar_bb", "junk", <<>>),
                    FunctionData("no_such_method", "db", <<>>) >>,
       weights |-> NoWeights],
      [funcs |-> << FunctionData("random_cage_topology", "", <<1>>),
                    FunctionData("similar_lk", "db", <<>>),
                    FunctionData("random_bb", "db", <<>>) >>,
       weights |-> Weights(<<50, 50, 0>>)],
      [funcs |-> << FunctionData("random_cage_topology", "", <<1, 1, 2>>) >>,
       weights |-> NoWeights],
      [funcs |-> << FunctionData("random_bb", "db", <<>>) >>,
       weights |-> Weights(<<60>>)] }

RECURSIVE Sum(_)
Sum(seq) == IF seq = <<>> THEN 0 ELSE Head(seq) + Sum(Tail(seq))

\* np.random.choice(self.funcs, p=self.weights): the indices it can return;
\* none when it raises ValueError (no entry, or probabilities that do not
\* match the entries or do not sum to 1).
choice(fs, w) ==
    IF ~w.given THEN DOMAIN fs
    ELSE IF Len(w.p) # Len(fs) \/ Sum(w.p) # 100 THEN {}
    ELSE {i \in DOMAIN fs : w.p[i] > 0}

(***************************************************************************)
(* Populations: the cages a population can hold when a round starts.       *)
(***************************************************************************)
\* The members: building block and fitness (0 is None, the fitness of a
\* cage no fitness function has seen); all have linker 1 and topology 1.
\* Two members differ in structure only, two in fitness only.
ParentCages ==
    { [NewCage(m[1], 1, 1, 0) EXCEPT !.fitness = m[2]] :
        m \in { <<1, 0>>, <<2, 0>>, <<2, 1>> } }

\* The order of the members plays no role (any member can be selected at
\* any place of the pool): one population per multiset of members.
Populations ==
    LET rank(c) == 2 * c.bb + c.fitness
    IN  { p \in UNION { [1..n -> ParentCages] : n \in 1..MaxPop } :
            \A i \in 1..(Len(p) - 1) : rank(p[i]) <= rank(p[i+1]) }

\* population.select('mutation'): a finite sequence of members.
Pools(pop) == UNION { [1..n -> Range(pop)] : n \in 0..MaxPool }

\* mutant_pop -= population: the members that are the same cage as a member
\* of the population are removed.
Population__sub__(members, pop, heap) ==
    SelectSeq(members,
              LAMBDA m : ~\E q \in Range(pop) : same_cage(heap[m], heap[q]))

\* counter.update([parent])
counter_update(c, parent) ==
    IF parent \in DOMAIN c THEN [c EXCEPT ![parent] = @ + 1]
    ELSE c @@ (parent :> 1)

\* counter.update({member : 0}) for every member not in counter.keys()
counter_unselected(c, pop) ==
    [m \in DOMAIN c \cup Range(pop) |-> IF m \in DOMAIN c THEN c[m] ELSE 0]

\* `if num_mutations == self.num_mutations: break`
QuotaExceeded(n, quota) == n > quota

QuotaReached(n, quota) == n = quota

\* `except Exception`: what the handler of the attempt catches.
CaughtNever(kind) == FALSE

Caught(kind) == kind = "raise"

\* `self.n_calls += 1`
NextCallStuck(n) == n

NextCall(n) == n + 1

\* file is the n_calls value the invocation's output path is formatted with.
NoInvocation ==
    [op |-> "", parent |-> 0, kind |-> "", drawn |-> 0, mutant |-> NoCage,
     file |-> 0]

(***************************************************************************)
(* Molecule subclass instances and the per-subclass identity cache.  An    *)
(* instance is its class and its __dict__: _key, atoms and _conformers,    *)
(* the last a reference to a list object of the heap `lists`.  _cache      *)
(* maps, per subclass, a key to the id of the cached instance (0: the key  *)
(* is not in the dict).                                                    *)
(***************************************************************************)
Classes == {"BuildingBlock", "ConstructedMolecule"}
Keys == {"k1", "k2"}

EmptyCache == [c \in Classes |-> [k \in Keys |-> 0]]

NoDict == [_key |-> "", atoms |-> "", _conformers |-> 0]

NoRet ==
    [op |-> "", obj |-> 0, built |-> FALSE, use_cache |-> FALSE, cls |-> "",
     key |-> "", prev |-> 0, target |-> 0, old |-> NoDict]

InitCacheVars ==
    /\ objs = <<>>
    /\ lists = <<>>
    /\ _cache = EmptyCache
    /\ owners = {}
    /\ served = EmptyCache
    /\ ret = NoRet
    /\ ops = 0

\* No geometry operation yet.  conformer_id is the id the operation was
\* given, arg its other arguments, before the conformer it found, prev the
\* operation before it.
NoGeometryOp ==
    [op |-> "", conformer_id |-> <<>>, arg |-> <<>>, raised |-> FALSE,
     returned |-> "", before |-> <<>>]

NoGret ==
    [op |-> "", conformer_id |-> <<>>, arg |-> <<>>, raised |-> FALSE,
     returned |-> "", before |-> <<>>, prev |-> NoGeometryOp]

InitGeometryVars ==
    /\ atoms = <<>>
    /\ bonds = <<>>
    /\ _conformers = <<>>
    /\ arrays = <<>>
    /\ gret = NoGret
    /\ gops = 0

\* No file written and no structural unit built.
InitFileVars ==
    /\ disk = <<>>
    /\ units = <<>>

\* No Cage constructed and no construction call in progress.
NoCall == [pc |-> "", args |-> "", seen |-> 0, obj |-> 0, result |-> ""]

InitWeakVars ==
    /\ wcache = <<>>
    /\ made = <<>>
    /\ wcall = NoCall

(***************************************************************************)
(* Mutation.__init__ and the population handed to the rounds.              *)
(***************************************************************************)
InitRoundVars ==
    /\ pc = "idle"
    /\ parent_pool = <<>>
    /\ pos = 0
    /\ mutant_pop = <<>>
    /\ num_mutations = 0
    /\ counter = <<>>
    /\ attempts = 0
    /\ failures = 0
    /\ collected = <<>>
    /\ last = NoInvocation

Init ==
    /\ \E cfg \in Configs : funcs = cfg.funcs /\ weights = cfg.weights
    /\ self_num_mutations \in 0..MaxQuota
    /\ n_calls = 0
    /\ cages \in Populations
    /\ population = [i \in DOMAIN cages |-> i]
    /\ InitRoundVars
    /\ history = <<>>
    /\ InitCacheVars
    /\ InitGeometryVars
    /\ InitFileVars
    /\ InitWeakVars

(***************************************************************************)
(* Mutation.__call__, lines 104-108: the parents are selected and the      *)
(* round's locals are set up.                                              *)
(***************************************************************************)
SelectParents ==
    /\ pc = "idle"
    /\ \E pool \in Pools(population) :
        /\ parent_pool' = pool
        /\ pc' = IF pool = <<>> THEN "post" ELSE "loop"
    /\ pos' = 0
    /\ mutant_pop' = <<>>
    /\ num_mutations' = 0
    /\ counter' = <<>>
    /\ attempts' = 0
    /\ failures' = 0
    /\ collected' = <<>>
    /\ last' = NoInvocation
    /\ UNCHANGED <<funcs, weights, self_num_mutations, n_calls, cages,
                   population, history, cvars, gvars, fvars,
                   wvars>>

\* Where the loop goes after an attempt that did not break out of it.
NextParentBreak(p) == "post"

NextParent(p) == IF p = Len(parent_pool) THEN "post" ELSE "loop"

(***************************************************************************)
(* Mutation.__call__, lines 109-127: one iteration of the loop over the    *)
(* parents.  The operator is chosen and looked up outside the try block,   *)
(* the invocation and the bookkeeping of a success are inside it.          *)
(***************************************************************************)
Attempt ==
    /\ pc = "loop"
    /\ LET parent == parent_pool[pos + 1]
           picks == choice(funcs, weights)
       IN /\ pos' = pos + 1
          /\ counter' = counter_update(counter, parent)
          /\ \/ /\ \/ picks = {}
                    \/ \E i \in picks : funcs[i].name \notin Methods
                /\ pc' = "raised"
                /\ UNCHANGED <<n_calls, cages, mutant_pop, num_mutations,
                               attempts, failures, last>>
             \/ \E i \in picks :
                /\ funcs[i].name \in Methods
                /\ \E out \in Invoke(funcs[i].name, cages[parent],
                                     funcs[i].params, NextCall(n_calls)) :
                    LET heap == [cages EXCEPT ![parent] = out.parent]
                        id == Len(cages) + 1
                    IN /\ n_calls' = NextCall(n_calls)
                       /\ attempts' = attempts + 1
                       /\ last' = [op |-> funcs[i].name, parent |-> parent,
                                   kind |-> out.kind, drawn |-> 0,
                                   mutant |-> out.mutant,
                                   file |-> NextCall(n_calls)]
                       /\ IF out.kind = "return"
                          THEN /\ cages' = Append(heap, out.mutant)
                               /\ mutant_pop' = Append(mutant_pop, id)
                               /\ num_mutations' = num_mutations + 1
                               /\ failures' = failures
                               /\ pc' = IF QuotaReached(num_mutations + 1,
                                                        self_num_mutations)
                                        THEN "post"
                                        ELSE NextParent(pos + 1)
                          ELSE /\ cages' = heap
                               /\ UNCHANGED <<mutant_pop, num_mutations>>
                               /\ failures' = IF out.kind = "raise"
                                              THEN failures + 1 ELSE failures
                               /\ pc' = IF out.kind = "hang" THEN "hung"
                                        ELSE IF Caught(out.kind)
                                        THEN NextParent(pos + 1)
                                        ELSE "raised"
    /\ UNCHANGED <<funcs, weights, self_num_mutations, population,
                   parent_pool, collected, history, cvars, gvars, fvars,
                   wvars>>

(***************************************************************************)
(* Mutation.__call__, lines 129-137: the post-filter, the bookkeeping of   *)
(* the unselected members and the return of the mutant population.         *)
(***************************************************************************)
PostFilter ==
    /\ pc = "post"
    /\ collected' = mutant_pop
    /\ mutant_pop' = Population__sub__(mutant_pop, population, cages)
    /\ counter' = counter_unselected(counter, population)
    /\ pc' = "done"
    /\ UNCHANGED <<funcs, weights, self_num_mutations, n_calls, cages,
                   population, parent_pool, pos, num_mutations, attempts,
                   failures, last, history, cvars, gvars, fvars,
                   wvars>>

Next == SelectParents \/ Attempt \/ PostFilter

Spec == Init /\ [][Next]_vars

(***************************************************************************)
(* Properties of a mutation round.                                         *)
(***************************************************************************)
RoundOver == pc \in {"done", "raised", "hung"}

\* C1: with a quota K >= 1 the loop never holds K successes while it is
\* still running (no operator is invoked after the K-th success), the loop
\* is left only with the quota reached or the pool exhausted, and a round
\* whose attempts all succeeded has collected exactly min(K, N) mutants
\* before the post-filter.
C1_QuotaOrExhaustion ==
    self_num_mutations >= 1 =>
        /\ num_mutations <= self_num_mutations
        /\ pc = "loop" =>
              num_mutations < self_num_mutations /\ pos < Len(parent_pool)
        /\ pc \in {"post", "done"} =>
              num_mutations = self_num_mutations \/ pos = Len(parent_pool)
        /\ (pc = "done" /\ attempts = pos /\ failures = 0) =>
              Len(collected) = Min(self_num_mutations, Len(parent_pool))

\* C1 witness: a round of successes stopped by the quota before the pool
\* was exhausted.
C1_Witness ==
    /\ pc = "done"
    /\ self_num_mutations >= 1
    /\ failures = 0
    /\ Len(collected) = self_num_mutations
    /\ self_num_mutations < Len(parent_pool)
    /\ pos < Len(parent_pool)

\* C2: an operator invocation that raises adds no mutant, leaves the
\* success count and the mutants collected so far as they are, and the loop
\* goes on to the next parent (or to the post-filter after the last one):
\* the round is not aborted.
C2_FailureIsolated ==
    [][ (pc = "loop" /\ attempts' = attempts + 1 /\ last'.kind = "raise") =>
            /\ mutant_pop' = mutant_pop
            /\ num_mutations' = num_mutations
            /\ \A m \in Range(mutant_pop) : cages'[m] = cages[m]
            /\ Len(cages') = Len(cages)
            /\ pos' = pos + 1
            /\ pc' = IF pos' < Len(parent_pool) THEN "loop" ELSE "post" ]_vars

\* C2 witness: a round in which an attempt raised and the next parent's
\* attempt then succeeded.
C2_Witness ==
    /\ pc = "done"
    /\ failures = 1
    /\ num_mutations = 1
    /\ last.kind = "return"
    /\ Len(collected) = 1

\* C3: a round in which every parent taken from the pool had its attempt
\* raise ends normally, after one attempt per parent of the pool, with an
\* empty mutant population; and while it runs there is a next parent.
C3_AllAttemptsRaise ==
    /\ (RoundOver /\ failures = pos) =>
          /\ pc = "done"
          /\ attempts = Len(parent_pool)
          /\ collected = <<>>
          /\ mutant_pop = <<>>
    /\ (pc = "loop" /\ failures = pos) => pos < Len(parent_pool)

\* C3 witness: a finished round of two attempts that both raised.
C3_Witness ==
    /\ pc = "done"
    /\ Len(parent_pool) = 2
    /\ failures = 2
    /\ mutant_pop = <<>>

TopologyLists ==
    { f.params.topologies : f \in { g \in Range(funcs) :
                                       g.name = "random_cage_topology" } }

\* C11: a cage returned by random_cage_topology has a topology that is in
\* the configured list and is not the parent's, and has the parent's
\* building block and linker, also when the list names the parent's
\* topology more than once.
C11_TopologyOfTheListNotTheParents ==
    (last.op = "random_cage_topology" /\ last.kind = "return") =>
        /\ \E tops \in TopologyLists : last.mutant.topology \in Range(tops)
        /\ last.mutant.topology # cages[last.parent].topology
        /\ last.mutant.bb = cages[last.parent].bb
        /\ last.mutant.lk = cages[last.parent].lk

\* C13: an operator invocation, returning or not, leaves the parent's
\* building block, linker, topology, fitness and file as they were (only
\* the two similarity cursors may differ), leaves every other cage as it
\* was, and a returned mutant is a new object, not the parent.
C13_ParentNotMutated ==
    [][ attempts' = attempts + 1 =>
            LET p == last'.parent
            IN /\ cages'[p].bb = cages[p].bb
               /\ cages'[p].lk = cages[p].lk
               /\ cages'[p].topology = cages[p].topology
               /\ cages'[p].fitness = cages[p].fitness
               /\ cages'[p].file = cages[p].file
               /\ \A q \in DOMAIN cages : q # p => cages'[q] = cages[q]
               /\ last'.kind = "return" =>
                     /\ Len(mutant_pop') = Len(mutant_pop) + 1
                     /\ mutant_pop'[Len(mutant_pop')] \notin DOMAIN cages
                     /\ mutant_pop'[Len(mutant_pop')] # p
                     /\ cages'[mutant_pop'[Len(mutant_pop')]] = last'.mutant
               /\ last'.kind # "return" => Len(cages') = Len(cages) ]_vars

\* C13 witness: similar_bb, invoked on a parent for the second time,
\* returned a mutant with another building block; the parent has its
\* cursor, its own building block and its fitness.
C13_Witness ==
    /\ last.op = "similar_bb"
    /\ last.kind = "return"
    /\ attempts = 2
    /\ cages[last.parent]._similar_bb_mols.has
    /\ cages[last.parent].fitness # 0
    /\ last.mutant.bb # cages[last.parent].bb

\* C14: a mutant an operator returns differs from the parent it was made
\* from in building block, linker or topology.
C14_MutantDistinctFromParent ==
    last.kind = "return" => ~same_cage(last.mutant, cages[last.parent])

(***************************************************************************)
(* SpecRounds: one Mutation instance runs round after round on the same    *)
(* population.                                                             *)
(***************************************************************************)
InitRounds ==
    /\ funcs = << FunctionData("random_cage_topology", "", AllTopologies),
                  FunctionData("similar_lk", "db", <<>>) >>
    /\ weights = NoWeights
    /\ self_num_mutations \in 0..MaxQuota
    /\ n_calls = 0
    /\ cages \in { p \in Populations : Len(p) = 1 }
    /\ population = [i \in DOMAIN cages |-> i]
    /\ InitRoundVars
    /\ history = <<>>
    /\ InitCacheVars
    /\ InitGeometryVars
    /\ InitFileVars
    /\ InitWeakVars

\* The instance is called again, Mutation.__call__ line 104.
NextRound ==
    /\ pc = "done"
    /\ n_calls < MaxCalls
    /\ pc' = "idle"
    /\ UNCHANGED <<funcs, weights, self_num_mutations, n_calls, cages,
                   population, parent_pool, pos, mutant_pop, num_mutations,
                   counter, attempts, failures, collected, last, history,
                   cvars, gvars, fvars,
                   wvars>>

NextRounds == SelectParents \/ Attempt \/ PostFilter \/ NextRound

SpecRounds == InitRounds /\ [][NextRounds]_vars

DatabasesOf(op) ==
    { f.params.database : f \in { g \in Range(funcs) : g.name = op } }

\* C25: with a quota of 0 the round invokes no operator and returns an
\* empty population, whatever the parent pool.
C25_QuotaZeroInvokesNothing ==
    self_num_mutations = 0 =>
        /\ attempts = 0
        /\ pc = "done" => collected = <<>> /\ mutant_pop = <<>>

\* C26: a random_bb or random_lk invocation whose database directory
\* offers no file ending in .mol (it is empty, or holds other files only)
\* raises, the round catches it and goes on to the next parent or to the
\* post-filter.
C26_NoCandidateRaises ==
    ( /\ attempts > 0
      /\ last.op \in {"random_bb", "random_lk"}
      /\ \A d \in DatabasesOf(last.op) :
            ~\E f \in listdir(d) : endswith_mol(f) ) =>
        /\ last.kind = "raise"
        /\ pc \in {"loop", "post", "done"}

(***************************************************************************)
(* SpecLookup: rounds of a Mutation instance configured with an operator   *)
(* that succeeds and with a name that is no method of Mutation, with no    *)
(* weights, with weights that select the second only and with weights that *)
(* np.random.choice rejects.                                               *)
(***************************************************************************)
InitLookup ==
    /\ funcs = << FunctionData("random_bb", "mols", <<>>),
                  FunctionData("no_such_method", "mols", <<>>) >>
    /\ weights \in { NoWeights, Weights(<<0, 100>>), Weights(<<60, 30>>) }
    /\ self_num_mutations \in 0..MaxQuota
    /\ n_calls = 0
    /\ cages \in Populations
    /\ population = [i \in DOMAIN cages |-> i]
    /\ InitRoundVars
    /\ history = <<>>
    /\ InitCacheVars
    /\ InitGeometryVars
    /\ InitFileVars
    /\ InitWeakVars

SpecLookup == InitLookup /\ [][Next]_vars

\* C27: when the weighted choice raises, or can only select a name that
\* is no method of Mutation, the iteration makes no invocation and the
\* exception leaves the round; a round an exception has left stays left:
\* its mutants are never post-filtered or returned, and no member gets
\* the usage count 0 of the unselected.
C27_SelectionFailureLeavesTheRound ==
    [][ /\ ( /\ pc = "loop"
             /\ \A i \in choice(funcs, weights) :
                   funcs[i].name = "no_such_method" ) =>
               /\ pc' = "raised"
               /\ attempts' = attempts
               /\ n_calls' = n_calls
               /\ mutant_pop' = mutant_pop
        /\ pc' = "raised" =>
               /\ pc = "loop"
               /\ collected' = <<>>
               /\ \A m \in DOMAIN counter' : counter'[m] >= 1 ]_vars

\* C27 witness: the round had collected a mutant when a name that is no
\* method was selected; the round was left with a member of the
\* population that has no usage count.
C27_Witness ==
    /\ pc = "raised"
    /\ mutant_pop # <<>>
    /\ collected = <<>>
    /\ \E m \in Range(population) : m \notin DOMAIN counter

(***************************************************************************)
(* SpecSimilar: similar_bb and similar_lk invoked directly, any number of  *)
(* times, on the members of a population.  history records, per parent     *)
(* and operator, every invocation in order: how it ended, the candidate    *)
(* the generator yielded (0: none) and the mutant returned.  The caller     *)
(* keeps the returned cage; the model keeps it in the record.               *)
(***************************************************************************)
SimilarOps == {"similar_bb", "similar_lk"}

SimilarPopulations ==
    { p \in Populations :
        /\ Len(p) <= 2
        /\ \A i \in DOMAIN p : p[i].fitness = 0 }

InitSimilar ==
    /\ \E db \in Paths :
          funcs = << FunctionData("similar_bb", db, <<>>),
                     FunctionData("similar_lk", db, <<>>) >>
    /\ weights = NoWeights
    /\ self_num_mutations = 0
    /\ n_calls = 0
    /\ cages \in SimilarPopulations
    /\ population = [i \in DOMAIN cages |-> i]
    /\ InitRoundVars
    /\ history = [p \in DOMAIN cages |-> [op \in SimilarOps |-> <<>>]]
    /\ InitCacheVars
    /\ InitGeometryVars
    /\ InitFileVars
    /\ InitWeakVars

InvokeSimilar ==
    /\ attempts < MaxInvocations
    /\ \E i \in DOMAIN funcs : \E parent \in Range(population) :
        \E out \in Invoke(funcs[i].name, cages[parent], funcs[i].params,
                          n_calls) :
            LET op == funcs[i].name
                inv == [op |-> op, parent |-> parent, kind |-> out.kind,
                        drawn |-> out.drawn, mutant |-> out.mutant,
                        file |-> n_calls]
            IN /\ cages' = [cages EXCEPT ![parent] = out.parent]
               /\ history' = [history EXCEPT ![parent][op] = Append(@, inv)]
               /\ last' = inv
    /\ attempts' = attempts + 1
    /\ UNCHANGED <<funcs, weights, self_num_mutations, n_calls, population,
                   pc, parent_pool, pos, mutant_pop, num_mutations, counter,
                   failures, collected, cvars, gvars, fvars,
                   wvars>>

NextSimilar == InvokeSimilar

SpecSimilar == InitSimilar /\ [][NextSimilar]_vars

\* The invocations of operator op on parent p, in order.
CallsOf(op, p) == history[p][op]

\* The database operator op is configured with, and the unit of parent p
\* that op replaces.
DatabaseOf(op) ==
    LET fd == CHOOSE f \in Range(funcs) : f.name = op
    IN fd.params.database
UnitOf(op, p) == IF op = "similar_bb" THEN cages[p].bb ELSE cages[p].lk
MutantUnit(op, m) == IF op = "similar_bb" THEN m.bb ELSE m.lk

\* C9: the k-th invocation of similar_bb (similar_lk) on a parent takes
\* the k-th candidate of the parent's ranked sequence, whether the earlier
\* invocations returned or raised, and uses it in the mutant it returns;
\* every invocation after the last candidate raises without a candidate.
C9_KthInvocationKthCandidate ==
    \A op \in SimilarOps : \A p \in Range(population) :
        LET calls == CallsOf(op, p)
            ranked == similar_molecules(UnitOf(op, p), DatabaseOf(op))
        IN \A k \in DOMAIN calls :
            IF k <= Len(ranked)
            THEN /\ calls[k].drawn = ranked[k].stem
                 /\ calls[k].kind = "return" =>
                       MutantUnit(op, calls[k].mutant) = ranked[k].stem
            ELSE calls[k].kind = "raise" /\ calls[k].drawn = 0

\* C9 witness: a parent whose first similar_bb invocation raised after
\* taking a candidate, whose second returned the second candidate, and
\* whose fourth found the sequence exhausted.
C9_Witness ==
    \E p \in Range(population) :
        LET calls == CallsOf("similar_bb", p)
        IN /\ Len(calls) = 4
           /\ calls[1].kind = "raise" /\ calls[1].drawn # 0
           /\ calls[2].kind = "return" /\ calls[2].drawn # calls[1].drawn
           /\ calls[4].kind = "raise" /\ calls[4].drawn = 0

\* C10 as stated: with a database of 3 candidates the first two
\* invocations take the 1st and the 2nd most similar and the third
\* invocation raises a sequence-exhaustion failure.
C10_ThirdInvocationExhausted ==
    \A op \in SimilarOps : \A p \in Range(population) :
        LET calls == CallsOf(op, p)
            ranked == similar_molecules(UnitOf(op, p), DatabaseOf(op))
        IN (Len(ranked) = 3 /\ Len(calls) >= 3) =>
              /\ calls[1].drawn = ranked[1].stem
              /\ calls[2].drawn = ranked[2].stem
              /\ calls[1].drawn # calls[2].drawn
              /\ calls[3].kind = "raise" /\ calls[3].drawn = 0

\* C10 amended: with a database of 3 candidates the first, second and
\* third invocation on a parent take the 1st, 2nd and 3rd most similar
\* candidate, three distinct ones, and it is the fourth invocation that
\* raises the sequence-exhaustion failure.
C10_FourthInvocationExhausted ==
    \A op \in SimilarOps : \A p \in Range(population) :
        LET calls == CallsOf(op, p)
            ranked == similar_molecules(UnitOf(op, p), DatabaseOf(op))
        IN Len(ranked) = 3 =>
              /\ \A k \in DOMAIN calls : k <= 3 =>
                    /\ calls[k].drawn = ranked[k].stem
                    /\ \A j \in 1..(k-1) : calls[j].drawn # calls[k].drawn
                    /\ calls[k].kind = "return" =>
                          MutantUnit(op, calls[k].mutant) = ranked[k].stem
              /\ Len(calls) >= 4 =>
                    calls[4].kind = "raise" /\ calls[4].drawn = 0

\* C10 witness: three invocations of similar_lk on one parent returned
\* three different linkers and the fourth raised.
C10_Witness ==
    \E p \in Range(population) :
        LET calls == CallsOf("similar_lk", p)
        IN /\ Len(calls) = 4
           /\ \A k \in 1..3 : calls[k].kind = "return"
           /\ Cardinality({calls[k].mutant.lk : k \in 1..3}) = 3
           /\ calls[4].kind = "raise"

(***************************************************************************)
(* SpecCache: Molecule subclasses are constructed, with and without the    *)
(* cache, instances are changed, reconciled with update_cache() and        *)
(* released by their owners.                                               *)
(***************************************************************************)
\* _Cached.__call__, line 29: the cached instance is returned.
CacheHitIgnoringFlag(cls, key, use_cache) == _cache[cls][key] # 0

CacheHit(cls, key, use_cache) == use_cache /\ _cache[cls][key] # 0

\* Molecule.__init__ followed by `obj._key = key`: the atoms are those the
\* constructor arguments (hence the key) name, the conformer list is a
\* new, empty list.
NewInstance(cls, key, listref) ==
    [cls |-> cls,
     dict |-> [_key |-> key, atoms |-> key, _conformers |-> listref]]

\* _Cached.__call__
Construct ==
    /\ ops < MaxCacheOps
    /\ \E cls \in Classes, key \in Keys, use_cache \in BOOLEAN :
        LET hit == CacheHit(cls, key, use_cache)
            id == IF hit THEN _cache[cls][key] ELSE Len(objs) + 1
        IN /\ hit \/ Len(objs) < MaxObjs
           /\ objs' = IF hit THEN objs
                      ELSE Append(objs, NewInstance(cls, key, Len(lists) + 1))
           /\ lists' = IF hit THEN lists ELSE Append(lists, <<>>)
           /\ owners' = owners \cup {id}
           /\ served' = IF use_cache THEN [served EXCEPT ![cls][key] = id]
                        ELSE served
           /\ ret' = [NoRet EXCEPT !.op = "construct", !.obj = id,
                                   !.built = ~hit, !.use_cache = use_cache,
                                   !.cls = cls, !.key = key,
                                   !.prev = IF served[cls][key] \in owners
                                            THEN served[cls][key] ELSE 0,
                                   !.target = _cache[cls][key]]
    /\ _cache' = _cache
    /\ ops' = ops + 1
    /\ UNCHANGED <<mvars, gvars, fvars,
                   wvars>>

\* Molecule.update_cache: the cache and the heap of instances it leaves.
update_cache_replacing(self) ==
    [cache |-> [_cache EXCEPT ![objs[self].cls][objs[self].dict._key] = self],
     heap |-> objs]

update_cache_copying(self) ==
    LET cls == objs[self].cls
        key == objs[self].dict._key
        M == _cache[cls][key]
    IN IF M # 0
       THEN [cache |-> _cache,
             heap |-> [objs EXCEPT ![M].dict =
                          [objs[self].dict EXCEPT
                              !._conformers = objs[M].dict._conformers]]]
       ELSE [cache |-> [_cache EXCEPT ![cls][key] = self],
             heap |-> objs]

update_cache(self) ==
    LET cls == objs[self].cls
        key == objs[self].dict._key
    IN IF _cache[cls][key] # 0
       THEN [cache |-> _cache,
             heap |-> [objs EXCEPT ![_cache[cls][key]].dict = objs[self].dict]]
       ELSE [cache |-> [_cache EXCEPT ![cls][key] = self],
             heap |-> objs]

UpdateCache ==
    /\ ops < MaxCacheOps
    /\ \E self \in owners :
        LET out == update_cache(self)
            cls == objs[self].cls
            key == objs[self].dict._key
            target == _cache[cls][key]
        IN /\ _cache' = out.cache
           /\ objs' = out.heap
           /\ ret' = [NoRet EXCEPT !.op = "update_cache", !.obj = self,
                                   !.cls = cls, !.key = key,
                                   !.target = target,
                                   !.old = IF target = 0 THEN NoDict
                                           ELSE objs[target].dict]
    /\ ops' = ops + 1
    /\ UNCHANGED <<lists, owners, served, mvars, gvars, fvars,
                   wvars>>

\* An owner drops its reference to an instance.
Release ==
    /\ ops < MaxCacheOps
    /\ \E self \in owners :
        /\ owners' = owners \ {self}
        /\ ret' = [NoRet EXCEPT !.op = "release", !.obj = self]
    /\ ops' = ops + 1
    /\ UNCHANGED <<objs, lists, _cache, served, mvars, gvars, fvars,
                   wvars>>

\* Position matrices handed to set_position_matrix: a row per atom.
PositionMatrices ==
    { << <<0, 0, 0>>, <<1, 0, 0>> >>,
      << <<0, 0, 1>>, <<1, 1, 1>> >> }

\* numpy's .T of a matrix given as a sequence of rows.
Transpose(m) ==
    IF m = <<>> THEN <<>>
    ELSE [j \in DOMAIN m[1] |-> [i \in DOMAIN m |-> m[i][j]]]

\* A conformer id: <<>> is None, <<i>> the integer i.
None == <<>>

\* A Python list index i of a list of n items: the item it names.
ValidIndex(n, i) == 0 - n <= i /\ i < n
PyIndex(n, i) == IF i >= 0 THEN i + 1 ELSE n + i + 1

\* Molecule.set_position_matrix on the conformer list: the list it
\* leaves (the list itself when the index raises IndexError).
set_position_matrix(conformers, position_matrix, conformer_id) ==
    IF conformer_id = None
    THEN Append(conformers, Transpose(position_matrix))
    ELSE IF ValidIndex(Len(conformers), conformer_id[1])
    THEN [conformers EXCEPT ![PyIndex(Len(conformers), conformer_id[1])] =
              Transpose(position_matrix)]
    ELSE conformers

SetPositionMatrix ==
    /\ ops < MaxCacheOps
    /\ \E self \in owners, m \in PositionMatrices,
          conformer_id \in {None, <<0>>} :
        LET ref == objs[self].dict._conformers
        IN /\ lists' = [lists EXCEPT ![ref] =
                            set_position_matrix(@, m, conformer_id)]
           /\ ret' = [NoRet EXCEPT !.op = "set_position_matrix",
                                   !.obj = self]
    /\ ops' = ops + 1
    /\ UNCHANGED <<objs, _cache, owners, served, mvars, gvars, fvars,
                   wvars>>

InitCache ==
    /\ funcs = <<>>
    /\ weights = NoWeights
    /\ self_num_mutations = 0
    /\ n_calls = 0
    /\ cages = <<>>
    /\ population = <<>>
    /\ InitRoundVars
    /\ history = <<>>
    /\ InitCacheVars
    /\ InitGeometryVars
    /\ InitFileVars
    /\ InitWeakVars

NextCache == Construct \/ UpdateCache \/ Release \/ SetPositionMatrix

SpecCache == InitCache /\ [][NextCache]_vars

(***************************************************************************)
(* Properties of the identity cache.                                       *)
(***************************************************************************)
\* C5: a construction with use_cache=true of a class and key that were
\* constructed with use_cache=true before (the instance returned then is
\* still held by its owner) returns that very instance and builds nothing.
C5_SecondConstructionSameInstance ==
    (ret.op = "construct" /\ ret.use_cache /\ ret.prev # 0) =>
        ret.obj = ret.prev /\ ~ret.built

\* C6: a construction with use_cache=false returns an instance built by
\* this very call, also when the key is in the cache, and leaves every
\* subclass's cache as it was.
C6_NoCacheConstruction ==
    [][ (ops' = ops + 1 /\ ret'.op = "construct" /\ ~ret'.use_cache) =>
            /\ ret'.built
            /\ ret'.obj \notin DOMAIN objs
            /\ ret'.obj \in DOMAIN objs'
            /\ objs'[ret'.obj].dict._conformers \notin DOMAIN lists
            /\ \A i \in DOMAIN objs : objs'[i] = objs[i]
            /\ _cache' = _cache ]_vars

\* C6 witness: an instance was built without the cache while another
\* instance with its key was in the cache of its class.
C6_Witness ==
    /\ ret.op = "construct"
    /\ ~ret.use_cache
    /\ ret.built
    /\ _cache[ret.cls][ret.key] # 0
    /\ _cache[ret.cls][ret.key] # ret.obj

\* C7: the cache serves no instance that every owner has released.
C7_CacheKeepsNothingAlive ==
    \A c \in Classes : \A k \in Keys :
        _cache[c][k] # 0 => _cache[c][k] \in owners

\* C8: update_cache() on C with key k leaves the cache mapping k to the
\* instance M it held, with M's attributes now those C had, or maps k to C
\* when it held none; C itself and every other cache entry are unchanged.
C8_UpdateCache ==
    [][ (ops' = ops + 1 /\ ret'.op = "update_cache") =>
            LET C == ret'.obj
                cls == objs[C].cls
                k == objs[C].dict._key
                M == _cache[cls][k]
            IN /\ M # 0 =>
                    /\ _cache'[cls][k] = M
                    /\ objs'[M].dict = objs[C].dict
                    /\ objs'[M].cls = objs[M].cls
               /\ M = 0 => _cache'[cls][k] = C
               /\ objs'[C] = objs[C]
               /\ \A c \in Classes : \A j \in Keys :
                     (c # cls \/ j # k) => _cache'[c][j] = _cache[c][j]
               /\ \A i \in DOMAIN objs : i # M => objs'[i] = objs[i] ]_vars

\* C8 witness: update_cache() gave a cached instance M, which is not C,
\* the attributes of C, which M did not have before.
C8_Witness ==
    /\ ret.op = "update_cache"
    /\ ret.target # 0
    /\ ret.target # ret.obj
    /\ _cache[ret.cls][ret.key] = ret.target
    /\ objs[ret.target].dict = objs[ret.obj].dict
    /\ objs[ret.target].dict # ret.old

(***************************************************************************)
(* SpecShared: an instance M is in the cache under its key and an          *)
(* instance C of the same class and key was built with use_cache=False;    *)
(* each may hold a conformer already.  update_cache() and position changes *)
(* follow, through either instance.                                        *)
(***************************************************************************)
\* conf + displacement[:, np.newaxis] on an integer array of shape (3, n).
shifted(conf, displacement) ==
    [i \in DOMAIN conf |->
        [j \in DOMAIN conf[i] |-> conf[i][j] + displacement[i]]]

\* Molecule.apply_displacement on the conformer list: the list it leaves
\* (the list itself when the index raises IndexError).
apply_displacement_on_list(conformers, displacement, conformer_id) ==
    IF ValidIndex(Len(conformers), conformer_id[1])
    THEN [conformers EXCEPT ![PyIndex(Len(conformers), conformer_id[1])] =
              shifted(@, displacement)]
    ELSE conformers

ApplyDisplacementCached ==
    /\ ops < MaxCacheOps
    /\ \E self \in owners, displacement \in { <<1, 0, 0 - 2>> },
          conformer_id \in { <<0>> } :
        LET ref == objs[self].dict._conformers
        IN /\ lists' = [lists EXCEPT ![ref] =
                            apply_displacement_on_list(@, displacement,
                                                       conformer_id)]
           /\ ret' = [NoRet EXCEPT !.op = "apply_displacement",
                                   !.obj = self]
    /\ ops' = ops + 1
    /\ UNCHANGED <<objs, _cache, owners, served, mvars, gvars, fvars,
                   wvars>>

InitShared ==
    /\ funcs = <<>>
    /\ weights = NoWeights
    /\ self_num_mutations = 0
    /\ n_calls = 0
    /\ cages = <<>>
    /\ population = <<>>
    /\ InitRoundVars
    /\ history = <<>>
    /\ \E cls \in Classes :
          /\ objs = << NewInstance(cls, "k1", 1), NewInstance(cls, "k1", 2) >>
          /\ _cache = [EmptyCache EXCEPT ![cls]["k1"] = 1]
    /\ lists \in [1..2 -> { <<>> } \cup
                             { << Transpose(m) >> : m \in PositionMatrices }]
    /\ owners = {1, 2}
    /\ served = EmptyCache
    /\ ret = NoRet
    /\ ops = 0
    /\ InitGeometryVars
    /\ InitFileVars
    /\ InitWeakVars

NextShared == UpdateCache \/ SetPositionMatrix \/ ApplyDisplacementCached

SpecShared == InitShared /\ [][NextShared]_vars

\* The instances other than self whose _conformers is the list object
\* that self's is.
SharingWith(self) ==
    { o \in DOMAIN objs :
        o # self /\ objs[o].dict._conformers = objs[self].dict._conformers }

\* C28: C.update_cache() with a distinct instance M cached under C's key
\* leaves M and C with one conformer list; a position change through an
\* instance changes that list and rebinds no attribute, so every instance
\* that shares the list reads the new positions, with no update_cache().
C28_SharedConformerList ==
    [][ /\ ( /\ ops' = ops + 1
             /\ ret'.op = "update_cache"
             /\ ret'.target # 0
             /\ ret'.target # ret'.obj ) =>
               /\ objs'[ret'.target].dict._conformers =
                      objs[ret'.obj].dict._conformers
               /\ objs'[ret'.obj].dict._conformers =
                      objs[ret'.obj].dict._conformers
               /\ lists' = lists
        /\ ( /\ ops' = ops + 1
             /\ ret'.op \in {"set_position_matrix", "apply_displacement"} ) =>
               /\ objs' = objs
               /\ \A o \in SharingWith(ret'.obj) :
                     lists'[objs'[o].dict._conformers] =
                         lists'[objs'[ret'.obj].dict._conformers]
               /\ \A ref \in DOMAIN lists :
                     ref # objs[ret'.obj].dict._conformers =>
                         lists'[ref] = lists[ref] ]_vars

\* C28 witness: C.update_cache() overwrote the cached M, whose own list
\* held no conformer, and a displacement was then applied through M: the
\* list C was built with holds the displaced conformer, and it is the
\* list of both.
C28_Witness ==
    /\ ret.op = "apply_displacement"
    /\ ret.obj = 1
    /\ _cache[objs[1].cls]["k1"] = 1
    /\ SharingWith(1) = {2}
    /\ objs[2].dict._conformers = 2
    /\ lists[1] = <<>>
    /\ lists[2] = << shifted(Transpose(<< <<0, 0, 0>>, <<1, 0, 0>> >>),
                             <<1, 0, 0 - 2>>) >>

(***************************************************************************)
(* Numbers.  Coordinates are rationals <<n, d>> in lowest terms, d > 0;     *)
(* <<0, 0>> is NaN, which every operation propagates.                       *)
(***************************************************************************)
RECURSIVE GCD(_, _)
GCD(a, b) == IF b = 0 THEN a ELSE GCD(b, a % b)

NaN == <<0, 0>>
isfinite(x) == x[2] # 0

Rat(n, d) ==
    IF d = 0 THEN NaN
    ELSE LET g == GCD(Abs(n), Abs(d))
             sgn == IF d < 0 THEN 0 - 1 ELSE 1
         IN << (sgn * n) \div g, Abs(d) \div g >>

Q(i) == <<i, 1>>
RAdd(a, b) == Rat(a[1] * b[2] + b[1] * a[2], a[2] * b[2])
RNeg(a) == << 0 - a[1], a[2] >>
RSub(a, b) == RAdd(a, RNeg(b))
RMul(a, b) == Rat(a[1] * b[1], a[2] * b[2])
RDiv(a, b) == Rat(a[1] * b[2], a[2] * b[1])
RAbs(a) == << Abs(a[1]), a[2] >>

RECURSIVE RSum(_)
RSum(seq) == IF seq = <<>> THEN Q(0) ELSE RAdd(Head(seq), RSum(Tail(seq)))

\* Vectors of three coordinates and 3x3 matrices (tuples of rows).
V(x, y, z) == << Q(x), Q(y), Q(z) >>
VAdd(u, v) == << RAdd(u[1], v[1]), RAdd(u[2], v[2]), RAdd(u[3], v[3]) >>
VNeg(u) == << RNeg(u[1]), RNeg(u[2]), RNeg(u[3]) >>
VScale(u, x) == << RMul(u[1], x), RMul(u[2], x), RMul(u[3], x) >>
VSub(u, v) == VAdd(u, VNeg(v))
Dot(u, v) ==
    RAdd(RAdd(RMul(u[1], v[1]), RMul(u[2], v[2])), RMul(u[3], v[3]))
Cross(u, v) ==
    << RSub(RMul(u[2], v[3]), RMul(u[3], v[2])),
       RSub(RMul(u[3], v[1]), RMul(u[1], v[3])),
       RSub(RMul(u[1], v[2]), RMul(u[2], v[1])) >>
MatVec(R, v) == << Dot(R[1], v), Dot(R[2], v), Dot(R[3], v) >>
Identity == << V(1, 0, 0), V(0, 1, 0), V(0, 0, 1) >>
MatAdd(A, B) == << VAdd(A[1], B[1]), VAdd(A[2], B[2]), VAdd(A[3], B[3]) >>
MatScale(A, x) == << VScale(A[1], x), VScale(A[2], x), VScale(A[3], x) >>
Transpose3(A) ==
    << << A[1][1], A[2][1], A[3][1] >>,
       << A[1][2], A[2][2], A[3][2] >>,
       << A[1][3], A[2][3], A[3][3] >> >>
MatMat(A, B) ==
    LET Bt == Transpose3(B)
    IN << MatVec(Bt, A[1]), MatVec(Bt, A[2]), MatVec(Bt, A[3]) >>

\* The matrix of the cross product with a.
CrossMatrix(a) ==
    << << Q(0), RNeg(a[3]), a[2] >>,
       << a[3], Q(0), RNeg(a[1]) >>,
       << RNeg(a[2]), a[1], Q(0) >> >>

\* rot_mat @ conf, conf an array of shape (3, n).
MatMulRow(r, conf) ==
    [j \in DOMAIN conf[1] |->
        RAdd(RAdd(RMul(r[1], conf[1][j]), RMul(r[2], conf[2][j])),
             RMul(r[3], conf[3][j]))]
MatMul(R, conf) ==
    << MatMulRow(R[1], conf), MatMulRow(R[2], conf), MatMulRow(R[3], conf) >>

\* The integer matrix m with rational entries.
QMatrix(m) == [i \in DOMAIN m |-> [j \in DOMAIN m[i] |-> Q(m[i][j])]]

(***************************************************************************)
(* The geometry kernel of stk.utilities.  Angles are counted in quarter    *)
(* turns, and the direction vectors handed in lie along a coordinate axis, *)
(* so every value is a rational.                                           *)
(***************************************************************************)
\* normalize_vector: the vector divided by its length; the length of a
\* vector along a coordinate axis is the sum of its coordinates' magnitudes.
normalize_vector(v) ==
    LET length == RAdd(RAdd(RAbs(v[1]), RAbs(v[2])), RAbs(v[3]))
    IN << RDiv(v[1], length), RDiv(v[2], length), RDiv(v[3], length) >>

\* Cosine and sine of theta quarter turns.
Cos(theta) ==
    IF ~isfinite(theta) THEN NaN
    ELSE CASE theta[1] % 4 = 0 -> Q(1)
           [] theta[1] % 4 = 2 -> Q(0 - 1)
           [] OTHER -> Q(0)
Sin(theta) ==
    IF ~isfinite(theta) THEN NaN
    ELSE CASE theta[1] % 4 = 1 -> Q(1)
           [] theta[1] % 4 = 3 -> Q(0 - 1)
           [] OTHER -> Q(0)

\* rotation_matrix_arbitrary_axis(theta, axis): the rotation by theta
\* about the normalized axis, cos I + sin [a]x + (1 - cos) a a^T.
rotation_matrix_arbitrary_axis(theta, axis) ==
    LET a == normalize_vector(axis)
        outer == << VScale(a, a[1]), VScale(a, a[2]), VScale(a, a[3]) >>
    IN MatAdd(MatAdd(MatScale(Identity, Cos(theta)),
                     MatScale(CrossMatrix(a), Sin(theta))),
              MatScale(outer, RSub(Q(1), Cos(theta))))

\* rotation_matrix(start, target): the rotation that takes the normalized
\* start onto the normalized target, I + [v]x + [v]x^2 / (1 + c) with
\* v = start x target and c = start . target.
rotation_matrix(start, target) ==
    LET a == normalize_vector(start)
        b == normalize_vector(target)
        vx == CrossMatrix(Cross(a, b))
    IN MatAdd(MatAdd(Identity, vx),
              MatScale(MatMat(vx, vx), RDiv(Q(1), RAdd(Q(1), Dot(a, b)))))

\* vector_theta(u, v): the angle between u and v, in quarter turns.
vector_theta(u, v) ==
    LET c == Dot(normalize_vector(u), normalize_vector(v))
    IN IF ~isfinite(c) THEN NaN
       ELSE IF c = Q(1) THEN Q(0)
       ELSE IF c = Q(0) THEN Q(1)
       ELSE Q(2)

\* a < b on angles; a comparison with NaN is false.
RLess(a, b) == isfinite(a) /\ isfinite(b) /\ a[1] * b[2] < b[1] * a[2]

(***************************************************************************)
(* The position store of a Molecule.  m is the pair of self._conformers    *)
(* and the buffers: a conformer is a reference to a buffer, T says that it *)
(* is the transposed view of it (position_matrix.T shares the memory of    *)
(* position_matrix).  Every operator gives the pair it leaves.             *)
(***************************************************************************)
View(ref) == [ref |-> ref, T |-> TRUE]
Owned(ref) == [ref |-> ref, T |-> FALSE]

\* The array of shape (3, n) conformer c is, read through its reference.
Read(m, c) ==
    IF c.T THEN Transpose(m.arrays[c.ref]) ELSE m.arrays[c.ref]

\* self._conformers[conformer_id], conformer_id an integer id <<i>>.
Slot(m, conformer_id) == PyIndex(Len(m._conformers), conformer_id[1])
HasConformer(m, conformer_id) ==
    ValidIndex(Len(m._conformers), conformer_id[1])
Conformer(m, conformer_id) == Read(m, m._conformers[Slot(m, conformer_id)])

\* self._conformers[conformer_id] = array, array a new buffer.
Rebind(m, conformer_id, array) ==
    [_conformers |-> [m._conformers EXCEPT ![Slot(m, conformer_id)] =
                          Owned(Len(m.arrays) + 1)],
     arrays |-> Append(m.arrays, array)]

\* conf + displacement[:, np.newaxis]
RowPlus(row, x) == [j \in DOMAIN row |-> RAdd(row[j], x)]

displaced_by_magnitude(conf, displacement) ==
    << RowPlus(conf[1], RAbs(displacement[1])),
       RowPlus(conf[2], RAbs(displacement[2])),
       RowPlus(conf[3], RAbs(displacement[3])) >>

displaced(conf, displacement) ==
    << RowPlus(conf[1], displacement[1]),
       RowPlus(conf[2], displacement[2]),
       RowPlus(conf[3], displacement[3]) >>

\* Molecule.apply_displacement
apply_displacement_in_place(m, displacement, conformer_id) ==
    LET c == m._conformers[Slot(m, conformer_id)]
        new == displaced(Read(m, c), displacement)
    IN [m EXCEPT !.arrays[c.ref] = IF c.T THEN Transpose(new) ELSE new]

apply_displacement(m, displacement, conformer_id) ==
    Rebind(m, conformer_id,
           displaced(Conformer(m, conformer_id), displacement))

\* rot_mat applied about origin: the conformer moved by -origin, rotated
\* and moved back by origin (the two arrays in between are dropped).
rotated_about(conf, rot_mat, origin) ==
    displaced(MatMul(rot_mat, displaced(conf, VNeg(origin))), origin)

\* Molecule.apply_rotation_about_axis
apply_rotation_about_axis_at_zero(m, theta, axis, origin, conformer_id) ==
    Rebind(m, conformer_id,
           MatMul(rotation_matrix_arbitrary_axis(theta, axis),
                  Conformer(m, conformer_id)))

apply_rotation_about_axis(m, theta, axis, origin, conformer_id) ==
    Rebind(m, conformer_id,
           rotated_about(Conformer(m, conformer_id),
                         rotation_matrix_arbitrary_axis(theta, axis), origin))

\* Molecule.apply_rotation_between_vectors
apply_rotation_between_vectors(m, start, target, origin, conformer_id) ==
    Rebind(m, conformer_id,
           rotated_about(Conformer(m, conformer_id),
                         rotation_matrix(normalize_vector(start),
                                         normalize_vector(target)),
                         origin))

\* The angle apply_rotation_to_minimize_theta rotates by: the angle
\* between the projections tstart and tend, with the sign that leaves the
\* smaller angle between the rotated tstart and tend.
signed_angle(angle, tstart, tend) ==
    LET r1 == rotation_matrix_arbitrary_axis(angle, V(0, 0, 1))
        t1 == vector_theta(MatVec(r1, tstart), tend)
        r2 == rotation_matrix_arbitrary_axis(RNeg(angle), V(0, 0, 1))
        t2 == vector_theta(MatVec(r2, tstart), tend)
    IN IF RLess(t2, t1) THEN RNeg(angle) ELSE angle

minimizing_angle(tstart, tend) ==
    CHOOSE signed \in { signed_angle(angle, tstart, tend) :
                          angle \in { vector_theta(tstart, tend) } } : TRUE

\* The rotation of apply_rotation_to_minimize_theta, given the images ts
\* and te of start and target under the rotation of axis onto z.
rotated_to_minimize(m, ts, te, axis, origin, cid) ==
    LET tstart == << ts[1], ts[2], Q(0) >>
        tend == << te[1], te[2], Q(0) >>
    IN IF tstart = V(0, 0, 0)
       THEN Rebind(m, cid,
                   displaced(displaced(Conformer(m, cid), VNeg(origin)),
                             origin))
       ELSE CHOOSE left \in
                { Rebind(m, cid,
                         rotated_about(
                             Conformer(m, cid),
                             rotation_matrix_arbitrary_axis(angle, axis),
                             origin)) :
                  angle \in { minimizing_angle(tstart, tend) } } : TRUE

\* Molecule.apply_rotation_to_minimize_theta
apply_rotation_to_minimize_theta(m, start, target, axis, origin, cid) ==
    IF ~\A i \in 1..3 : isfinite(start[i]) THEN m
    ELSE CHOOSE left \in
             { rotated_to_minimize(m, ts, te, axis, origin, cid) :
               ts \in { MatVec(rotation_matrix(axis, V(0, 0, 1)), start) },
               te \in { MatVec(rotation_matrix(axis, V(0, 0, 1)), target) }
             } : TRUE

\* An atom_ids argument: a list, a tuple or a one-shot iterable of ids.
AtomIds(kind, items) == [kind |-> kind, items |-> items]

\* conf[:, atom_ids]: the columns of the atoms named, ids counted from 0.
RowColumns(row, ids) ==
    [k \in DOMAIN ids |-> row[PyIndex(Len(row), ids[k])]]
Columns(conf, ids) ==
    << RowColumns(conf[1], ids), RowColumns(conf[2], ids),
       RowColumns(conf[3], ids) >>

\* The ids name columns of conf (numpy raises IndexError otherwise).
HasColumns(conf, ids) ==
    \A k \in DOMAIN ids : ValidIndex(Len(conf[1]), ids[k])

\* Molecule.get_centroid: an iterable that is neither a list nor a tuple
\* is made a list once; the sum of the columns is divided by their number.
get_centroid_of_all(conf, atom_ids) ==
    << RDiv(RSum(conf[1]), Q(Len(conf[1]))),
       RDiv(RSum(conf[2]), Q(Len(conf[2]))),
       RDiv(RSum(conf[3]), Q(Len(conf[3]))) >>

get_centroid(conf, atom_ids) ==
    LET ids == atom_ids.items
        cols == Columns(conf, ids)
    IN << RDiv(RSum(cols[1]), Q(Len(ids))),
          RDiv(RSum(cols[2]), Q(Len(ids))),
          RDiv(RSum(cols[3]), Q(Len(ids))) >>

\* Molecule.set_centroid
set_centroid(m, position, atom_ids, conformer_id) ==
    LET centroid == get_centroid(Conformer(m, conformer_id), atom_ids)
    IN apply_displacement(m, VSub(position, centroid), conformer_id)

\* Molecule.set_position_matrix, position_matrix the caller's buffer ref:
\* the conformer is its transposed view.
set_position_matrix_view(m, ref, conformer_id) ==
    IF conformer_id = None
    THEN [m EXCEPT !._conformers = Append(@, View(ref))]
    ELSE [m EXCEPT !._conformers[Slot(m, conformer_id)] = View(ref)]

\* set_position_matrix(positions), positions an array made for the call.
set_new_position_matrix(m, positions, conformer_id) ==
    set_position_matrix_view([m EXCEPT !.arrays = Append(@, positions)],
                             Len(m.arrays) + 1, conformer_id)

\* Molecule.update_from_rdkit_mol: GetPositions() gives a new array.
update_from_rdkit_mol(m, positions, conformer_id) ==
    set_new_position_matrix(m, positions, conformer_id)

(***************************************************************************)
(* Structure files.  A file has an extension, the atom count of its header *)
(* (.xyz) and a line per atom: the element and the coordinates.            *)
(***************************************************************************)
FileLine(element, j) == [element |-> element, coords |-> V(j, 1, 0)]

StructureFile(ext, count, elements) ==
    [ext |-> ext, atom_count |-> count,
     content |-> [j \in DOMAIN elements |-> FileLine(elements[j], j)]]

\* The position matrix, shape (n, 3), the lines of a file give.
Positions(file) == [j \in DOMAIN file.content |-> file.content[j].coords]

\* The file names as many atoms as the molecule has, of the same elements
\* in the same order.
Agrees(file, ats) ==
    /\ Len(file.content) = Len(ats)
    /\ file.ext = "xyz" => file.atom_count = Len(ats)
    /\ \A j \in DOMAIN ats : file.content[j].element = ats[j]

\* Molecule._update_from_mol and _update_from_mae: rdkit reads the file
\* and the positions of the molecule it gives are set.
update_from_mol(m, ats, file, conformer_id) ==
    [raised |-> FALSE,
     mol |-> update_from_rdkit_mol(m, Positions(file), conformer_id)]

\* Molecule._update_from_xyz: RuntimeError for a wrong count, a wrong
\* element or a wrong number of lines (IndexError for a line too many).
update_from_xyz(m, ats, file, conformer_id) ==
    IF \/ file.atom_count # Len(ats)
       \/ \E i \in DOMAIN file.content :
             i > Len(ats) \/ file.content[i].element # ats[i]
       \/ Len(file.content) # Len(ats)
    THEN [raised |-> TRUE, mol |-> m]
    ELSE [raised |-> FALSE,
          mol |-> set_new_position_matrix(m, Positions(file), conformer_id)]

\* Molecule._update_from_turbomole: as for .xyz, the count being the
\* number of lines; the coordinates are converted from bohr (the factor
\* is rounded to 1/2 here).
update_from_turbomole(m, ats, file, conformer_id) ==
    IF \/ Len(file.content) # Len(ats)
       \/ \E i \in DOMAIN file.content : file.content[i].element # ats[i]
    THEN [raised |-> TRUE, mol |-> m]
    ELSE LET new_coords ==
                 [j \in DOMAIN file.content |->
                     VScale(file.content[j].coords, Rat(1, 2))]
         IN [raised |-> FALSE,
             mol |-> set_new_position_matrix(m, new_coords, conformer_id)]

\* Molecule.update_from_file: the function of the extension is called
\* (KeyError for an extension that has none).
update_from_file(m, ats, file, conformer_id) ==
    CASE file.ext \in {"mol", "sdf", "mae"} ->
             update_from_mol(m, ats, file, conformer_id)
      [] file.ext = "xyz" -> update_from_xyz(m, ats, file, conformer_id)
      [] file.ext = "coord" ->
             update_from_turbomole(m, ats, file, conformer_id)
      [] OTHER -> [raised |-> TRUE, mol |-> m]

(***************************************************************************)
(* SpecGeometry: one molecule of two atoms, holding conformers set from    *)
(* the caller's position matrices, has its position store read and         *)
(* changed.                                                                *)
(***************************************************************************)
MoleculeAtoms == << "C", "H" >>
MoleculeBonds == << <<0, 1>> >>

\* The position matrices, shape (n, 3), the caller holds.
CallerArrays ==
    << QMatrix(<< <<0, 0, 0>>, <<1, 0, 0>> >>),
       QMatrix(<< <<0, 0, 1>>, <<1, 1, 1>> >>) >>

\* The arguments the operations are called with.  The displacements and
\* the rotations about an axis are applied to either conformer, the other
\* operations to conformer 0.
ConformerIds == { <<0>>, <<1>> }
Displacements == { V(1, 0, 0 - 2), V(0 - 1, 0, 2) }
Thetas == { Q(1), Q(0 - 1) }
Axes == { V(0, 0, 2) }
Origins == { V(1, 0, 0) }
Directions == { << V(2, 0, 0), V(0, 1, 0) >> }
NaNVector == << NaN, NaN, NaN >>
MinimizeArgs ==
    { << V(1, 0, 0), V(0, 1, 0), V(0, 0, 1) >>,
      << V(0, 0, 1), V(0, 1, 0), V(0, 0, 1) >>,
      << NaNVector, V(0, 1, 0), V(0, 0, 1) >> }
CentroidPositions == { V(1, 1, 1) }
AtomIdArgs ==
    { AtomIds("list", <<1>>), AtomIds("tuple", <<0>>),
      AtomIds("iterator", <<0, 1>>) }
Files ==
    { StructureFile("mol", 2, << "C", "H" >>),
      StructureFile("mol", 3, << "C", "H", "H" >>),
      StructureFile("sdf", 2, << "H", "C" >>),
      StructureFile("mae", 1, << "C" >>),
      StructureFile("xyz", 2, << "C", "H" >>),
      StructureFile("xyz", 3, << "C", "H", "H" >>),
      StructureFile("xyz", 2, << "H", "C" >>),
      StructureFile("coord", 2, << "C", "H" >>),
      StructureFile("coord", 1, << "C" >>) }

InitGeometry ==
    /\ funcs = <<>>
    /\ weights = NoWeights
    /\ self_num_mutations = 0
    /\ n_calls = 0
    /\ cages = <<>>
    /\ population = <<>>
    /\ InitRoundVars
    /\ history = <<>>
    /\ InitCacheVars
    /\ atoms = MoleculeAtoms
    /\ bonds = MoleculeBonds
    /\ arrays = CallerArrays
    /\ _conformers \in
          { c \in UNION { [1..n -> { View(r) : r \in DOMAIN CallerArrays }] :
                            n \in 0..MaxConformers } :
              \A i \in 1..(Len(c) - 1) : c[i].ref <= c[i+1].ref }
    /\ gret = NoGret
    /\ gops = 0
    /\ InitFileVars
    /\ InitWeakVars

\* The molecule's position store as it is.
Mol == [_conformers |-> _conformers, arrays |-> arrays]

\* The outcome of an operation: it returned self, or raised.
Returned(m) == [raised |-> FALSE, mol |-> m]
IndexError == [raised |-> TRUE, mol |-> Mol]

\* One operation: the store it leaves and the record of what it did.
Do(op, conformer_id, arg, outcome) ==
    /\ \E out \in {outcome} :
        /\ _conformers' = out.mol._conformers
        /\ arrays' = out.mol.arrays
        /\ gret' = [op |-> op, conformer_id |-> conformer_id, arg |-> arg,
                raised |-> out.raised,
                returned |-> IF out.raised THEN "" ELSE "self",
                before |-> IF conformer_id # None
                              /\ HasConformer(Mol, conformer_id)
                           THEN Conformer(Mol, conformer_id) ELSE <<>>,
                prev |-> [op |-> gret.op,
                          conformer_id |-> gret.conformer_id,
                          arg |-> gret.arg, raised |-> gret.raised,
                          returned |-> gret.returned,
                          before |-> gret.before]]
    /\ gops' = gops + 1
    /\ UNCHANGED <<atoms, bonds, mvars, cvars, fvars,
                   wvars>>

ApplyDisplacement ==
    \E displacement \in Displacements, conformer_id \in ConformerIds :
        /\ gops < MaxGeomOps
        /\ Do("apply_displacement", conformer_id, <<displacement>>,
              IF HasConformer(Mol, conformer_id)
              THEN Returned(apply_displacement(Mol, displacement, conformer_id))
              ELSE IndexError)

ApplyRotationAboutAxis ==
    \E theta \in Thetas, axis \in Axes, origin \in Origins,
       conformer_id \in ConformerIds :
        /\ gops < MaxGeomOps
        /\ Do("apply_rotation_about_axis", conformer_id,
              <<theta, axis, origin>>,
              IF HasConformer(Mol, conformer_id)
              THEN Returned(apply_rotation_about_axis(Mol, theta, axis, origin,
                                                      conformer_id))
              ELSE IndexError)

ApplyRotationBetweenVectors ==
    \E d \in Directions, origin \in Origins, conformer_id \in {<<0>>} :
        /\ gops < MaxGeomOps
        /\ Do("apply_rotation_between_vectors", conformer_id,
              <<d[1], d[2], origin>>,
              IF HasConformer(Mol, conformer_id)
              THEN Returned(apply_rotation_between_vectors(Mol, d[1], d[2],
                                                           origin, conformer_id))
              ELSE IndexError)

ApplyRotationToMinimizeTheta ==
    \E a \in MinimizeArgs, origin \in Origins, conformer_id \in {<<0>>} :
        /\ gops < MaxGeomOps
        /\ Do("apply_rotation_to_minimize_theta", conformer_id,
              <<a[1], a[2], a[3], origin>>,
              IF HasConformer(Mol, conformer_id)
                 \/ ~\A i \in 1..3 : isfinite(a[1][i])
              THEN Returned(apply_rotation_to_minimize_theta(
                                Mol, a[1], a[2], a[3], origin, conformer_id))
              ELSE IndexError)

SetCentroid ==
    \E position \in CentroidPositions, atom_ids \in AtomIdArgs,
       conformer_id \in {<<0>>} :
        /\ gops < MaxGeomOps
        /\ Do("set_centroid", conformer_id, <<position, atom_ids>>,
              IF /\ HasConformer(Mol, conformer_id)
                 /\ HasColumns(Conformer(Mol, conformer_id), atom_ids.items)
              THEN Returned(set_centroid(Mol, position, atom_ids, conformer_id))
              ELSE IndexError)

SetPositionMatrixView ==
    \E ref \in DOMAIN CallerArrays, conformer_id \in {<<0>>, None} :
        /\ gops < MaxGeomOps
        /\ Do("set_position_matrix", conformer_id, <<ref>>,
              IF conformer_id = None \/ HasConformer(Mol, conformer_id)
              THEN Returned(set_position_matrix_view(Mol, ref, conformer_id))
              ELSE IndexError)

UpdateFromRdkitMol ==
    \E ref \in {1}, conformer_id \in {<<0>>, None} :
        /\ gops < MaxGeomOps
        /\ Do("update_from_rdkit_mol", conformer_id, <<ref>>,
              IF conformer_id = None \/ HasConformer(Mol, conformer_id)
              THEN Returned(update_from_rdkit_mol(Mol, CallerArrays[ref],
                                                  conformer_id))
              ELSE IndexError)

UpdateFromFile ==
    \E file \in Files, conformer_id \in {<<0>>} :
        /\ gops < MaxGeomOps
        /\ Do("update_from_file", conformer_id, <<file>>,
              IF conformer_id = None \/ HasConformer(Mol, conformer_id)
              THEN update_from_file(Mol, atoms, file, conformer_id)
              ELSE IndexError)

NextGeometry ==
    \/ ApplyDisplacement
    \/ ApplyRotationAboutAxis
    \/ ApplyRotationBetweenVectors
    \/ ApplyRotationToMinimizeTheta
    \/ SetCentroid
    \/ SetPositionMatrixView
    \/ UpdateFromRdkitMol
    \/ UpdateFromFile

SpecGeometry == InitGeometry /\ [][NextGeometry]_vars

(***************************************************************************)
(* Properties of the position store.                                       *)
(***************************************************************************)
\* The position store an operation leaves.
MolNext == [_conformers |-> _conformers', arrays |-> arrays']

PositionChanging ==
    { "apply_displacement", "apply_rotation_about_axis",
      "apply_rotation_between_vectors", "apply_rotation_to_minimize_theta",
      "set_centroid", "set_position_matrix" }

\* C15: a position-changing operation on conformer c leaves the atoms, the
\* bonds, the number of conformers and the positions of every conformer
\* other than c as they were, also when the other conformer shares its
\* buffer with c; with conformer id None it appends one conformer and
\* leaves the positions of all that were there.
C15_OtherConformersUntouched ==
    [][ (gops' = gops + 1 /\ gret'.op \in PositionChanging) =>
            /\ atoms' = atoms
            /\ bonds' = bonds
            /\ IF gret'.conformer_id = None
               THEN /\ Len(_conformers') = Len(_conformers) + 1
                    /\ \A i \in DOMAIN _conformers :
                          Read(MolNext, _conformers'[i]) =
                              Read(Mol, _conformers[i])
               ELSE /\ Len(_conformers') = Len(_conformers)
                    /\ \A i \in DOMAIN _conformers :
                          (gret'.raised
                             \/ i # Slot(Mol, gret'.conformer_id)) =>
                              Read(MolNext, _conformers'[i]) =
                                  Read(Mol, _conformers[i]) ]_vars

\* C15 witness: of two conformers set from the same position matrix the
\* first was rotated and differs now, the second is as both were.
C15_Witness ==
    /\ gret.op = "apply_rotation_about_axis"
    /\ gret.prev.op = ""
    /\ ~gret.raised
    /\ gret.conformer_id = <<0>>
    /\ Len(_conformers) = 2
    /\ _conformers[2].T
    /\ Read(Mol, _conformers[2]) = gret.before
    /\ Read(Mol, _conformers[1]) # gret.before

\* C16: every conformer holds a position for each atom of the molecule,
\* no more and no fewer.
C16_ConformersHaveAllAtoms ==
    \A k \in DOMAIN _conformers :
        \A i \in 1..3 : Len(Read(Mol, _conformers[k])[i]) = Len(atoms)

\* C17: update_from_file with a file whose atom count or element sequence
\* disagrees with the molecule's atoms raises and leaves the conformers as
\* they were.
C17_MismatchRaises ==
    [][ (/\ gops' = gops + 1
         /\ gret'.op = "update_from_file"
         /\ ~Agrees(gret'.arg[1], atoms)) =>
            /\ gret'.raised
            /\ _conformers' = _conformers
            /\ arrays' = arrays ]_vars

\* C18: after set_centroid(p, S, c) the positions of the atoms of S in
\* conformer c add up to len(S) times p, get_centroid(S, c) is p, and
\* every atom of c has moved by the same vector.
C18_CentroidSet ==
    (gret.op = "set_centroid" /\ ~gret.raised) =>
        LET now == Conformer(Mol, gret.conformer_id)
            p == gret.arg[1]
            S == gret.arg[2]
            cols == Columns(now, S.items)
        IN /\ \A i \in 1..3 : RSum(cols[i]) = RMul(p[i], Q(Len(S.items)))
           /\ get_centroid(now, S) = p
           /\ \A i \in 1..3 : \A j, k \in DOMAIN now[i] :
                 RSub(now[i][j], gret.before[i][j]) =
                     RSub(now[i][k], gret.before[i][k])

\* C18 witness: the centroid of two atoms, given as a one-shot iterable,
\* was set and the conformer moved by a vector that is not integral.
C18_Witness ==
    /\ gret.op = "set_centroid"
    /\ ~gret.raised
    /\ gret.arg[2].kind = "iterator"
    /\ Len(gret.arg[2].items) = 2
    /\ \E i \in 1..3 :
          Conformer(Mol, gret.conformer_id)[i][1][2] # 1

\* C19: apply_displacement returns the molecule, and apply_displacement(v)
\* followed by apply_displacement(-v) on the same conformer leaves it with
\* the positions it had before the two.
C19_DisplacementRoundTrip ==
    /\ (gret.op = "apply_displacement" /\ ~gret.raised) =>
          gret.returned = "self"
    /\ (/\ gret.op = "apply_displacement" /\ ~gret.raised
        /\ gret.prev.op = "apply_displacement" /\ ~gret.prev.raised
        /\ gret.conformer_id = gret.prev.conformer_id
        /\ gret.arg[1] = VNeg(gret.prev.arg[1])) =>
          Conformer(Mol, gret.conformer_id) = gret.prev.before

\* C19 witness: a conformer was displaced by v, which moved it, and then
\* by -v.
C19_Witness ==
    /\ gret.op = "apply_displacement" /\ ~gret.raised
    /\ gret.prev.op = "apply_displacement" /\ ~gret.prev.raised
    /\ gret.conformer_id = gret.prev.conformer_id
    /\ gret.arg[1] = VNeg(gret.prev.arg[1])
    /\ gret.before # gret.prev.before

\* C20: apply_rotation_about_axis leaves an atom that is at the origin of
\* the rotation where it is, and the rotation by theta followed by the
\* rotation by -theta about the same axis and origin leaves the conformer
\* with the positions it had before the two.
C20_RotationRoundTrip ==
    /\ (gret.op = "apply_rotation_about_axis" /\ ~gret.raised) =>
          LET now == Conformer(Mol, gret.conformer_id)
              origin == gret.arg[3]
          IN \A j \in DOMAIN now[1] :
                (\A i \in 1..3 : gret.before[i][j] = origin[i]) =>
                    \A i \in 1..3 : now[i][j] = origin[i]
    /\ (/\ gret.op = "apply_rotation_about_axis" /\ ~gret.raised
        /\ gret.prev.op = "apply_rotation_about_axis" /\ ~gret.prev.raised
        /\ gret.conformer_id = gret.prev.conformer_id
        /\ gret.arg = << RNeg(gret.prev.arg[1]), gret.prev.arg[2],
                         gret.prev.arg[3] >>) =>
          Conformer(Mol, gret.conformer_id) = gret.prev.before

\* C20 witness: a conformer with an atom at the origin of the rotation was
\* rotated by theta, which moved another atom, and then by -theta.
C20_Witness ==
    /\ gret.op = "apply_rotation_about_axis" /\ ~gret.raised
    /\ gret.prev.op = "apply_rotation_about_axis" /\ ~gret.prev.raised
    /\ gret.conformer_id = gret.prev.conformer_id
    /\ gret.arg = << RNeg(gret.prev.arg[1]), gret.prev.arg[2],
                     gret.prev.arg[3] >>
    /\ gret.before # gret.prev.before
    /\ \E j \in DOMAIN gret.before[1] :
          \A i \in 1..3 : gret.before[i][j] = gret.arg[3][i]

(***************************************************************************)
(* SpecConformerIds: the operations that index self._conformers, called    *)
(* with conformer ids inside and outside 0..n-1 on a molecule of n         *)
(* conformers.                                                             *)
(***************************************************************************)
AnyConformerIds == { <<0 - 3>>, <<0 - 1>>, <<0>>, <<2>> }

\* Molecule.get_position_matrix: the array of shape (n, 3).
get_position_matrix(m, conformer_id) == Transpose(Conformer(m, conformer_id))

ApplyDisplacementAt ==
    \E displacement \in { V(1, 0, 0 - 2) },
       conformer_id \in AnyConformerIds :
        /\ gops < MaxGeomOps
        /\ Do("apply_displacement", conformer_id, <<displacement>>,
              IF HasConformer(Mol, conformer_id)
              THEN Returned(apply_displacement(Mol, displacement,
                                               conformer_id))
              ELSE IndexError)

GetPositionMatrixAt ==
    \E conformer_id \in AnyConformerIds :
        /\ gops < MaxGeomOps
        /\ gret' = [op |-> "get_position_matrix",
                    conformer_id |-> conformer_id, arg |-> <<>>,
                    raised |-> ~HasConformer(Mol, conformer_id),
                    returned |-> IF HasConformer(Mol, conformer_id)
                                 THEN get_position_matrix(Mol, conformer_id)
                                 ELSE "",
                    before |-> IF HasConformer(Mol, conformer_id)
                               THEN Conformer(Mol, conformer_id) ELSE <<>>,
                    prev |-> [op |-> gret.op,
                              conformer_id |-> gret.conformer_id,
                              arg |-> gret.arg, raised |-> gret.raised,
                              returned |-> gret.returned,
                              before |-> gret.before]]
        /\ gops' = gops + 1
        /\ UNCHANGED <<atoms, bonds, _conformers, arrays, mvars, cvars, fvars,
                   wvars>>

SetPositionMatrixAt ==
    \E ref \in DOMAIN CallerArrays, conformer_id \in AnyConformerIds :
        /\ gops < MaxGeomOps
        /\ Do("set_position_matrix", conformer_id, <<ref>>,
              IF HasConformer(Mol, conformer_id)
              THEN Returned(set_position_matrix_view(Mol, ref, conformer_id))
              ELSE IndexError)

ApplyRotationToMinimizeThetaAt ==
    \E a \in { << NaNVector, V(0, 1, 0), V(0, 0, 1) >>,
                << V(1, 0, 0), V(0, 1, 0), V(0, 0, 1) >> },
       origin \in Origins, conformer_id \in AnyConformerIds :
        /\ gops < MaxGeomOps
        /\ Do("apply_rotation_to_minimize_theta", conformer_id,
              <<a[1], a[2], a[3], origin>>,
              IF HasConformer(Mol, conformer_id)
                 \/ ~\A i \in 1..3 : isfinite(a[1][i])
              THEN Returned(apply_rotation_to_minimize_theta(
                                Mol, a[1], a[2], a[3], origin, conformer_id))
              ELSE IndexError)

NextConformerIds ==
    \/ ApplyDisplacementAt
    \/ GetPositionMatrixAt
    \/ SetPositionMatrixAt
    \/ ApplyRotationToMinimizeThetaAt

SpecConformerIds == InitGeometry /\ [][NextConformerIds]_vars

\* C24: an operation given an integer conformer id outside 0..n-1, n the
\* number of conformers, negative ids included, raises and leaves the
\* conformers as they were.
C24_IdOutsideRangeRaises ==
    [][ (/\ gops' = gops + 1
         /\ gret'.conformer_id # None
         /\ gret'.conformer_id[1] \notin 0..(Len(_conformers) - 1)) =>
            /\ gret'.raised
            /\ _conformers' = _conformers
            /\ arrays' = arrays ]_vars

(***************************************************************************)
(* SpecFiles: the molecule is written to structure files with write() and  *)
(* its positions are updated from the files it wrote.                      *)
(*                                                                         *)
(* A bond holds its two ends in bond.atom1 and bond.atom2.  The writers    *)
(* do not agree on what an end is: to_mdl_mol_block takes it as the atom   *)
(* id (an int), to_rdkit_mol and _write_pdb_file take its .id, as of an    *)
(* Atom.  Both kinds of end are molecules SpecFiles starts from.           *)
(* Every atom is neutral: no line carries a CHG field.                     *)
(***************************************************************************)
IntEnd(i) == [kind |-> "int", id |-> i]
AtomEnd(i) == [kind |-> "Atom", id |-> i]
Bond(a1, a2, order) == [atom1 |-> a1, atom2 |-> a2, order |-> order]

\* The (atom id, atom id, order) triples of the molecule's bonds.
BondSet(bds) == { <<b.atom1.id, b.atom2.id, b.order>> : b \in Range(bds) }

\* float(format(x, '.Nf')), scale = 10^N: x rounded to N decimals (a tie
\* goes to the even digit).  The whole part is set aside and the common
\* factor of scale and denominator is divided out first.
fixed(x, scale) ==
    IF ~isfinite(x) THEN NaN
    ELSE LET whole == x[1] \div x[2]
             rem == x[1] - whole * x[2]
             g == GCD(scale, x[2])
             d == x[2] \div g
             num == rem * (scale \div g)
             fl == num \div d
             twice == 2 * (num - fl * d)
         IN RAdd(Q(whole),
                 Rat(IF twice < d \/ (twice = d /\ fl % 2 = 0)
                     THEN fl ELSE fl + 1, scale))

\* float(str(x)[:8]) for abs(x) < 10: the digits after the eighth
\* character are cut off, which leaves six decimals, five after a sign.
cut8(x) ==
    IF ~isfinite(x) THEN NaN
    ELSE LET scale == IF x[1] < 0 THEN 100000 ELSE 1000000
             whole == Abs(x[1]) \div x[2]
             rem == Abs(x[1]) - whole * x[2]
             g == GCD(scale, x[2])
             cut == (rem * (scale \div g)) \div (x[2] \div g)
             size == RAdd(Q(whole), Rat(cut, scale))
         IN IF x[1] < 0 THEN RNeg(size) ELSE size

\* atom_ids, range(len(self.atoms)) when None.
ids_or_all(ats, atom_ids) ==
    IF atom_ids = None THEN [i \in 1..Len(ats) |-> i - 1] ELSE atom_ids

\* conf[:, atom_id]
column(conf, atom_id) ==
    << conf[1][atom_id + 1], conf[2][atom_id + 1], conf[3][atom_id + 1] >>

\* `a in atoms`, atoms the set of the int ids written: an Atom is not
\* equal to an int.
in_atoms(a, ids) == a.kind = "int" /\ a.id \in Range(ids)

\* The indexes (from 1) of the bonds from index i on whose line
\* to_mdl_mol_block writes.
RECURSIVE bonds_written(_, _, _)
bonds_written(bds, ids, i) ==
    IF i > Len(bds) THEN <<>>
    ELSE IF in_atoms(bds[i].atom1, ids) /\ in_atoms(bds[i].atom2, ids)
         THEN <<i>> \o bonds_written(bds, ids, i + 1)
         ELSE bonds_written(bds, ids, i + 1)

\* Molecule.to_mdl_mol_block: the COUNTS line, a line per atom written
\* (id, symbol, coordinates to 4 decimals) and a line per bond both ends
\* of which are `in atoms`.  Called with a conformer the molecule has and
\* at least one atom id.
to_mdl_mol_block(m, ats, bds, atom_ids, conformer_id) ==
    LET ids == ids_or_all(ats, atom_ids)
        conf == Conformer(m, conformer_id)
        num_atoms == Len(ids)
        kept == bonds_written(bds, ids, 1)
        bond_lines ==
            [k \in DOMAIN kept |->
                [id |-> (IF num_atoms = Len(ats) THEN kept[k] - 1
                         ELSE k - 1) + 1,
                 order |-> bds[kept[k]].order,
                 a1 |-> bds[kept[k]].atom1.id + 1,
                 a2 |-> bds[kept[k]].atom2.id + 1]]
    IN [format |-> "V3000",
        atom_count |-> num_atoms,
        content |->
            [i \in DOMAIN ids |->
                [id |-> ids[i] + 1, element |-> ats[ids[i] + 1],
                 coords |-> [k \in 1..3 |->
                                fixed(column(conf, ids[i])[k], 10000)]]],
        bond_count |-> Len(bond_lines),
        bond_lines |-> bond_lines]

\* What the chemistry library reads from a V3000 block: the elements in
\* the order of the atom lines and the bonds of the bond lines.
MolFromMolBlock(block) ==
    [atoms |-> [j \in DOMAIN block.content |-> block.content[j].element],
     bonds |-> { <<l.a1 - 1, l.a2 - 1, l.order>> :
                    l \in Range(block.bond_lines) }]

\* A file open(path, 'w') made and nothing was written to.
EmptyFile(ext) == [ext |-> ext, format |-> "", atom_count |-> 0,
                   content |-> <<>>]

\* What a writer did: it raised or not, and the file it left at the path
\* (None: it left none).
Wrote(file) == [raised |-> FALSE, file |-> <<file>>]
WriteRaised(file) == [raised |-> TRUE, file |-> file]

\* Molecule._write_mdl_mol_file: the file is opened, then the block is
\* made and written.
write_mdl_mol_file(m, ats, bds, ext, atom_ids, conformer_id) ==
    IF ~HasConformer(m, conformer_id) \/ ids_or_all(ats, atom_ids) = <<>>
    THEN WriteRaised(<<EmptyFile(ext)>>)
    ELSE LET block == to_mdl_mol_block(m, ats, bds, atom_ids, conformer_id)
         IN Wrote([ext |-> ext, format |-> block.format,
                   atom_count |-> block.atom_count,
                   content |-> block.content,
                   bond_count |-> block.bond_count,
                   bond_lines |-> block.bond_lines])

\* Molecule._write_xyz_file: the atom count, an empty line and a line per
\* atom (symbol and coordinates, 6 decimals); the file is opened after
\* the lines were made.
write_xyz_file(m, ats, bds, ext, atom_ids, conformer_id) ==
    IF ~HasConformer(m, conformer_id) \/ ids_or_all(ats, atom_ids) = <<>>
    THEN WriteRaised(None)
    ELSE LET ids == ids_or_all(ats, atom_ids)
             conf == Conformer(m, conformer_id)
         IN Wrote([ext |-> ext, format |-> "xyz", atom_count |-> Len(ids),
                   content |->
                       [i \in DOMAIN ids |->
                           [element |-> ats[ids[i] + 1],
                            coords |->
                                [k \in 1..3 |->
                                    fixed(column(conf, ids[i])[k],
                                          1000000)]]]])

\* Molecule._write_pdb_file: a HETATM line per atom and a CONECT line per
\* bond between atoms written; bond.atom1.id is an AttributeError for an
\* end that is an int.
write_pdb_file(m, ats, bds, ext, atom_ids, conformer_id) ==
    IF \/ ~HasConformer(m, conformer_id)
       \/ \E b \in Range(bds) : "int" \in {b.atom1.kind, b.atom2.kind}
    THEN WriteRaised(None)
    ELSE LET ids == ids_or_all(ats, atom_ids)
             conf == Conformer(m, conformer_id)
         IN Wrote([ext |-> ext, format |-> "pdb", atom_count |-> Len(ids),
                   content |->
                       [i \in DOMAIN ids |->
                           [serial |-> ids[i] + 1,
                            element |-> ats[ids[i] + 1],
                            coords |->
                                [k \in 1..3 |->
                                    cut8(column(conf, ids[i])[k])]]],
                   conect |->
                       { <<b.atom1.id + 1, b.atom2.id + 1>> :
                           b \in { c \in Range(bds) :
                                     /\ c.atom1.id \in Range(ids)
                                     /\ c.atom2.id \in Range(ids) } }])

\* Molecule.write: the writer of the path's extension (KeyError for an
\* extension that has none).
write(m, ats, bds, ext, atom_ids, conformer_id) ==
    CASE ext \in {"mol", "sdf"} ->
             write_mdl_mol_file(m, ats, bds, ext, atom_ids, conformer_id)
      [] ext = "xyz" ->
             write_xyz_file(m, ats, bds, ext, atom_ids, conformer_id)
      [] ext = "pdb" ->
             write_pdb_file(m, ats, bds, ext, atom_ids, conformer_id)
      [] OTHER -> WriteRaised(None)

\* The paths written to, and the arrays the conformers are views of.
WritePaths == { [stem |-> "out", ext |-> e] :
                  e \in {"mol", "sdf", "xyz", "pdb", "mae"} }
FileArrays ==
    << QMatrix(<< <<0, 0, 0>>, <<1, 0, 0>> >>),
       << << Rat(1, 3), Q(0), Rat(0 - 2, 3) >>,
          << Rat(1, 2), Q(1), Rat(1, 20000) >> >> >>
BondLists ==
    { <<>>, << Bond(IntEnd(0), IntEnd(1), 1) >>,
      << Bond(AtomEnd(0), AtomEnd(1), 1) >> }

InitFiles ==
    /\ funcs = <<>>
    /\ weights = NoWeights
    /\ self_num_mutations = 0
    /\ n_calls = 0
    /\ cages = <<>>
    /\ population = <<>>
    /\ InitRoundVars
    /\ history = <<>>
    /\ InitCacheVars
    /\ atoms = MoleculeAtoms
    /\ bonds \in BondLists
    /\ arrays = FileArrays
    /\ _conformers \in
          UNION { [1..n -> { View(r) : r \in DOMAIN FileArrays }] :
                    n \in 0..1 }
    /\ gret = NoGret
    /\ gops = 0
    /\ InitFileVars
    /\ InitWeakVars

\* molecule.write(path): the file the writer leaves is at the path.
Write ==
    \E path \in WritePaths, conformer_id \in {<<0>>} :
        \E out \in { write(Mol, atoms, bonds, path.ext, None,
                           conformer_id) } :
            /\ gops < MaxFileOps
            /\ gops' = gops + 1
            /\ disk' = IF out.file = None THEN disk
                       ELSE (path :> out.file[1]) @@ disk
            /\ gret' = [op |-> "write", conformer_id |-> conformer_id,
                        arg |-> <<path>>, raised |-> out.raised,
                        returned |-> "",
                        before |-> IF HasConformer(Mol, conformer_id)
                                   THEN Conformer(Mol, conformer_id)
                                   ELSE <<>>,
                        prev |-> [op |-> gret.op,
                                  conformer_id |-> gret.conformer_id,
                                  arg |-> gret.arg, raised |-> gret.raised,
                                  returned |-> gret.returned,
                                  before |-> gret.before]]
            /\ UNCHANGED <<atoms, bonds, _conformers, arrays, units,
                           mvars, cvars, wvars>>

\* molecule.update_from_file(path), path a file on the disk.
UpdateFromWritten ==
    \E path \in DOMAIN disk, conformer_id \in {<<0>>} :
        /\ gops < MaxFileOps
        /\ Do("update_from_file", conformer_id, <<path>>,
              IF disk[path].format = ""
              THEN IndexError
              ELSE update_from_file(Mol, atoms, disk[path], conformer_id))

\* The molecule is moved between a write and an update.
MoveWritten ==
    \E displacement \in { V(1, 0, 0 - 2) }, conformer_id \in {<<0>>} :
        /\ gops < MaxFileOps
        /\ gret.op # "apply_displacement"
        /\ Do("apply_displacement", conformer_id, <<displacement>>,
              IF HasConformer(Mol, conformer_id)
              THEN Returned(apply_displacement(Mol, displacement,
                                               conformer_id))
              ELSE IndexError)

NextFiles ==
    \/ Write
    \/ UpdateFromWritten
    \/ MoveWritten

SpecFiles == InitFiles /\ [][NextFiles]_vars

\* C21: a V3000 file written for all atoms reads back as the molecule's
\* atom count, its elements in atom order and its set of bonds (atom-id
\* pair and order).
C21_V3000RoundTrip ==
    \A path \in DOMAIN disk :
        (disk[path].ext \in {"mol", "sdf"} /\ disk[path].format = "V3000") =>
            /\ disk[path].atom_count = Len(atoms)
            /\ MolFromMolBlock(disk[path]).atoms = atoms
            /\ MolFromMolBlock(disk[path]).bonds = BondSet(bonds)

\* C22: update_from_file() on a file write() wrote, of any extension
\* write() accepts, succeeds; the file has the molecule's atom count and
\* elements and the conformer is left at the positions written.
C22_WrittenFileReadsBack ==
    [][ (/\ gret'.op = "update_from_file"
         /\ gops' = gops + 1
         /\ disk[gret'.arg[1]].format # "") =>
            /\ ~gret'.raised
            /\ disk[gret'.arg[1]].atom_count = Len(atoms)
            /\ \A j \in DOMAIN atoms :
                  disk[gret'.arg[1]].content[j].element = atoms[j]
            /\ Transpose(Conformer([_conformers |-> _conformers',
                                    arrays |-> arrays'], <<0>>))
                  = Positions(disk[gret'.arg[1]]) ]_vars

(***************************************************************************)
(* SpecUnits: structural units are built from the .mol files of database   *)
(* directories, by a direct StructUnit(path) call and by the draw of       *)
(* random_bb / random_lk.                                                  *)
(*                                                                         *)
(* A path is a directory, the words of the file's stem (joined by "_")     *)
(* and the extension.  names_in gives the functional-group names that are  *)
(* substrings of a word.                                                   *)
(***************************************************************************)
functional_group_list ==
    << "aldehyde", "carboxylic acid", "amide", "thioacid", "alcohol",
       "thiol", "amine", "nitroso", "boronic acid" >>

names_in(word) ==
    CASE word \in Range(functional_group_list) -> {word}
      [] word = "diamine" -> {"amine"}
      [] word = "thiolamide" -> {"thiol", "amide"}
      [] OTHER -> {}

UnitPath(dir, stem, ext) == [dir |-> dir, stem |-> stem, ext |-> ext]

\* `x.name in prist_mol_file`
name_in_path(name, path) ==
    \E w \in {path.dir} \cup Range(path.stem) : name \in names_in(w)

\* next((x for x in FGInfo.functional_group_list
\*       if x.name in prist_mol_file), None)
func_grp_of(path) ==
    IF \E i \in DOMAIN functional_group_list :
          name_in_path(functional_group_list[i], path)
    THEN << functional_group_list[
               CHOOSE i \in DOMAIN functional_group_list :
                  /\ name_in_path(functional_group_list[i], path)
                  /\ \A j \in 1..(i - 1) :
                        ~name_in_path(functional_group_list[j], path)] >>
    ELSE None

\* The derived file put into another directory.
heavy_file_elsewhere(path, name) ==
    UnitPath("heavy", path.stem \o << "HEAVY", name, "" >>, path.ext)

\* '_'.join([root, 'HEAVY', name, ext]), root and ext the two parts
\* os.path.splitext gives: root_HEAVY_name_.mol, in the directory of the
\* pristine file.
heavy_file(path, name) ==
    UnitPath(path.dir, path.stem \o << "HEAVY", name, "" >>, path.ext)

\* What a construction left: no object (it raised), or the unit's
\* attributes.
NoUnit(by, path) ==
    [by |-> by, path |-> path, raised |-> TRUE, func_grp |-> None,
     heavy_mol_file |-> None]
Unit(by, path, name) ==
    [by |-> by, path |-> path, raised |-> FALSE, func_grp |-> <<name>>,
     heavy_mol_file |-> << heavy_file(path, name) >>]

\* StructUnit.__init__ and _generate_heavy_attrs: the file is read (an
\* error for a file that is missing or holds no molecule), the functional
\* group is looked up, the substituted molecule is made with
\* self.func_grp.smarts_start (AttributeError for None) and written to
\* the derived file.  Gives the unit and the disk left.
StructUnit(by, path, files) ==
    IF path \notin DOMAIN files \/ files[path] # "molecule"
    THEN [unit |-> NoUnit(by, path), disk |-> files]
    ELSE IF func_grp_of(path) = None
         THEN [unit |-> NoUnit(by, path), disk |-> files]
         ELSE [unit |-> Unit(by, path, func_grp_of(path)[1]),
               disk |-> (heavy_file(path, func_grp_of(path)[1])
                            :> "molecule") @@ files]

\* The files of a database directory a draw can end with.
candidates(files, database) ==
    { f \in DOMAIN files : f.dir = database /\ f.ext = "mol" }

\* The files the directories hold before any unit is built.
InitialFiles ==
    (UnitPath("amine", <<"a">>, "mol") :> "molecule")
    @@ (UnitPath("amine", <<"notes">>, "txt") :> "text")
    @@ (UnitPath("mols", <<"amine", "aldehyde">>, "mol") :> "molecule")
    @@ (UnitPath("mols", <<"diamine">>, "mol") :> "molecule")
    @@ (UnitPath("mols", <<"thiolamide">>, "mol") :> "molecule")
    @@ (UnitPath("mols", <<"b">>, "mol") :> "molecule")
    @@ (UnitPath("mols", <<"amine">>, "txt") :> "text")
Databases == { "amine", "mols" }
GivenPaths ==
    DOMAIN InitialFiles \cup { UnitPath("mols", <<"missing">>, "mol") }

InitUnits ==
    /\ funcs = <<>>
    /\ weights = NoWeights
    /\ self_num_mutations = 0
    /\ n_calls = 0
    /\ cages = <<>>
    /\ population = <<>>
    /\ InitRoundVars
    /\ history = <<>>
    /\ InitCacheVars
    /\ InitGeometryVars
    /\ disk = InitialFiles
    /\ units = <<>>
    /\ InitWeakVars

\* StructUnit(path), path given by the caller.
ConstructStructUnit ==
    \E path \in GivenPaths :
        \E out \in { StructUnit("StructUnit", path, disk) } :
            /\ Len(units) < MaxUnits
            /\ units' = Append(units, out.unit)
            /\ disk' = out.disk
            /\ UNCHANGED <<mvars, cvars, gvars, wvars>>

\* random_bb and random_lk up to the unit they build: a name is drawn
\* from os.listdir(database) until one ends in .mol, and the structural
\* unit is built from it.
DrawStructUnit ==
    \E database \in Databases, op \in {"random_bb", "random_lk"} :
        \E bb_file \in candidates(disk, database) :
            \E out \in { StructUnit(op, bb_file, disk) } :
                /\ Len(units) < MaxUnits
                /\ units' = Append(units, out.unit)
                /\ disk' = out.disk
                /\ UNCHANGED <<mvars, cvars, gvars, wvars>>

NextUnits ==
    \/ ConstructStructUnit
    \/ DrawStructUnit

SpecUnits == InitUnits /\ [][NextUnits]_vars

\* C23: a structural unit built from a file gets the first entry of the
\* functional-group table whose name occurs in the path; when no name
\* occurs the construction completes with func_grp = None.
C23_FirstTableMatchOrNone ==
    \A k \in DOMAIN units :
        (units[k].path \in DOMAIN InitialFiles
         /\ InitialFiles[units[k].path] = "molecule") =>
            /\ ~units[k].raised
            /\ \A i \in DOMAIN functional_group_list :
                  ( /\ name_in_path(functional_group_list[i], units[k].path)
                    /\ \A j \in 1..(i - 1) :
                          ~name_in_path(functional_group_list[j],
                                        units[k].path) ) =>
                      units[k].func_grp = << functional_group_list[i] >>
            /\ (\A i \in DOMAIN functional_group_list :
                   ~name_in_path(functional_group_list[i], units[k].path))
                  => units[k].func_grp = None

\* A step that built a structural unit.
Built == Len(units') = Len(units) + 1 /\ ~units'[Len(units')].raised

\* C30 as stated: with each structural unit built from a file of a
\* directory, the directory has one more candidate for random_bb and
\* random_lk.
C30_GrowsWithEachUnit ==
    [][ Built =>
          Cardinality(candidates(disk', units'[Len(units')].path.dir))
              > Cardinality(candidates(disk, units'[Len(units')].path.dir))
      ]_vars

\* C30: a structural unit built from a file writes the substituted
\* variant to a .mol file of the same directory, which is a candidate of
\* random_bb and random_lk from then on; the directory has one more
\* candidate when that file was not there yet and the same candidates
\* when it was (the unit was built from the same file before).
C30_DerivedFileIsCandidate ==
    [][ Built =>
          LET unit == units'[Len(units')]
              heavy == unit.heavy_mol_file[1]
          IN /\ heavy.dir = unit.path.dir
             /\ heavy.ext = "mol"
             /\ heavy # unit.path
             /\ disk'[heavy] = "molecule"
             /\ candidates(disk', heavy.dir)
                   = candidates(disk, heavy.dir) \cup {heavy}
             /\ \A f \in DOMAIN disk : disk'[f] = disk[f]
             /\ (heavy \in DOMAIN disk) <=>
                   \E k \in DOMAIN units :
                      units[k].heavy_mol_file = <<heavy>> ]_vars

\* A swap drew a file that an earlier unit derived, and built a unit
\* from it.
C30_Witness ==
    \E k \in DOMAIN units : \E j \in 1..(k - 1) :
        /\ units[k].by \in {"random_bb", "random_lk"}
        /\ ~units[k].raised
        /\ ~units[j].raised
        /\ units[j].heavy_mol_file = << units[k].path >>
        /\ units[k].path \notin DOMAIN InitialFiles
        /\ units[k].path \in candidates(disk, units[k].path.dir)

(***************************************************************************)
(* SpecWeak: calls of the class Cage, which go through Cached.__call__, on  *)
(* one thread, while the owners of the instances release them and the     *)
(* garbage collector collects the instances nothing refers to.  The cache  *)
(* is a WeakValueDictionary: it does not keep an instance alive, and the   *)
(* entry of an instance goes when the instance is collected.               *)
(*                                                                         *)
(* made[id] is an instance: the arguments it was built with, whether it    *)
(* is alive and whether an owner refers to it.  wcall.pc is the position   *)
(* in __call__, wcall.seen the instance the presence check found.          *)
(***************************************************************************)
ArgTuples == { "args1", "args2" }

Instance(args) == [args |-> args, alive |-> TRUE, held |-> FALSE]

\* A dictionary that keeps the entry of a collected instance.
keep(cache, id) == cache

\* The callback of the weak reference: the entries of the collected
\* instance are removed.
discard(cache, id) ==
    [a \in { b \in DOMAIN cache : cache[b] # id } |-> cache[a]]

\* self.__cache[args] = obj
store(cache, args, id) == (args :> id) @@ cache

\* The class Cage is called with args.
CallCage ==
    \E args \in ArgTuples :
        /\ wcall.pc = ""
        /\ Len(made) < MaxCages
        /\ wcall' = [pc |-> "check", args |-> args, seen |-> 0, obj |-> 0,
                    result |-> ""]
        /\ UNCHANGED <<wcache, made, mvars, cvars, gvars, fvars>>

\* if args in self.__cache.keys():
CheckPresent ==
    /\ wcall.pc = "check"
    /\ wcall' = IF wcall.args \in DOMAIN wcache
               THEN [wcall EXCEPT !.pc = "get", !.seen = wcache[wcall.args]]
               ELSE [wcall EXCEPT !.pc = "build"]
    /\ UNCHANGED <<wcache, made, mvars, cvars, gvars, fvars>>

\* return self.__cache[args]: KeyError when the entry is gone; the
\* caller refers to the instance returned.
GetCached ==
    /\ wcall.pc = "get"
    /\ IF wcall.args \in DOMAIN wcache
       THEN /\ wcall' = [wcall EXCEPT !.pc = "", !.obj = wcache[wcall.args],
                                    !.result = "returned"]
            /\ made' = [made EXCEPT ![wcache[wcall.args]].held = TRUE]
       ELSE /\ wcall' = [wcall EXCEPT !.pc = "", !.result = "KeyError"]
            /\ made' = made
    /\ UNCHANGED <<wcache, mvars, cvars, gvars, fvars>>

\* obj = super().__call__ of args
BuildCage ==
    /\ wcall.pc = "build"
    /\ made' = Append(made, Instance(wcall.args))
    /\ wcall' = [wcall EXCEPT !.pc = "store", !.obj = Len(made) + 1]
    /\ UNCHANGED <<wcache, mvars, cvars, gvars, fvars>>

\* self.__cache[args] = obj
StoreCage ==
    /\ wcall.pc = "store"
    /\ wcache' = store(wcache, wcall.args, wcall.obj)
    /\ wcall' = [wcall EXCEPT !.pc = "return"]
    /\ UNCHANGED <<made, mvars, cvars, gvars, fvars>>

\* return obj: the caller refers to the instance returned.
ReturnCage ==
    /\ wcall.pc = "return"
    /\ wcall' = [wcall EXCEPT !.pc = "", !.result = "returned"]
    /\ made' = [made EXCEPT ![wcall.obj].held = TRUE]
    /\ UNCHANGED <<wcache, mvars, cvars, gvars, fvars>>

\* The owner of an instance drops its reference (the owner's code runs
\* between calls: there is one thread).
ReleaseCage ==
    \E id \in DOMAIN made :
        /\ wcall.pc = ""
        /\ made[id].held
        /\ made' = [made EXCEPT ![id].held = FALSE]
        /\ UNCHANGED <<wcache, wcall, mvars, cvars, gvars, fvars>>

\* The collector frees an instance no owner and no local variable of the
\* call in progress refers to.
CollectCage ==
    \E id \in DOMAIN made :
        /\ made[id].alive
        /\ ~made[id].held
        /\ ~(wcall.pc \in {"store", "return"} /\ wcall.obj = id)
        /\ made' = [made EXCEPT ![id].alive = FALSE]
        /\ wcache' = discard(wcache, id)
        /\ UNCHANGED <<wcall, mvars, cvars, gvars, fvars>>

InitWeak ==
    /\ funcs = <<>>
    /\ weights = NoWeights
    /\ self_num_mutations = 0
    /\ n_calls = 0
    /\ cages = <<>>
    /\ population = <<>>
    /\ InitRoundVars
    /\ history = <<>>
    /\ InitCacheVars
    /\ InitGeometryVars
    /\ InitFileVars
    /\ InitWeakVars

NextWeak ==
    \/ CallCage
    \/ CheckPresent
    \/ GetCached
    \/ BuildCage
    \/ StoreCage
    \/ ReturnCage
    \/ ReleaseCage
    \/ CollectCage

SpecWeak == InitWeak /\ [][NextWeak]_vars

\* C29: the presence check and the retrieval are two steps.  A call whose
\* instance is collected between them ends in KeyError, and builds and
\* caches nothing; a call ends in KeyError in that case only, and every
\* call that returns gives a live instance that is the cache's entry for
\* the call's arguments.
C29_CollectedBetweenCheckAndGet ==
    [][ /\ (wcall.pc = "get" /\ wcall'.pc = ""
            /\ ~made[wcall.seen].alive) =>
              /\ wcall'.result = "KeyError"
              /\ made' = made
              /\ wcache' = wcache
              /\ wcall.args \notin DOMAIN wcache
        /\ (wcall.pc # "" /\ wcall'.result = "KeyError") =>
              /\ wcall.pc = "get"
              /\ wcall.seen # 0
              /\ ~made[wcall.seen].alive
        /\ (wcall.pc # "" /\ wcall'.result = "returned") =>
              /\ made'[wcall'.obj].alive
              /\ made'[wcall'.obj].args = wcall.args
              /\ wcall.args \in DOMAIN wcache'
              /\ wcache'[wcall.args] = wcall'.obj ]_vars

\* A call found its arguments in the cache, the instance was collected
\* and the call ended in KeyError.
C29_Witness ==
    /\ wcall.pc = ""
    /\ wcall.result = "KeyError"
    /\ wcall.seen # 0
    /\ ~made[wcall.seen].alive
    /\ made[wcall.seen].args = wcall.args
    /\ wcall.args \notin DOMAIN wcache

====
